---- MODULE Spec2Model ----
(***************************************************************************)
(* Model of the sandboxed usage-query script engine                        *)
(* (src-tauri/src/usage_script.rs) and of the two web-server entry points  *)
(* that select its egress policy (src-tauri/src/bin/server.rs and          *)
(* src-tauri/examples/server.rs).                                          *)
(*                                                                         *)
(* Strings are sequences of one-character strings, so that trimming,       *)
(* lower-casing and comparison are computed, not assumed.  IPv4 addresses  *)
(* are four octets, IPv6 addresses eight 16-bit segments.                  *)
(***************************************************************************)
EXTENDS Integers, Sequences, FiniteSets, TLC

VARIABLES
    \* ---- process environment (std::env) ----
    envPolicy,        \* USAGE_SCRIPT_EGRESS_POLICY
    envAllowedHosts,  \* USAGE_SCRIPT_ALLOWED_HOSTS
    envRedirects,     \* USAGE_SCRIPT_ALLOW_REDIRECTS
    envMaxBodyBytes,      \* USAGE_SCRIPT_MAX_BODY_BYTES
    envMaxHeaderCount,    \* USAGE_SCRIPT_MAX_HEADER_COUNT
    envMaxResponseBytes,  \* USAGE_SCRIPT_MAX_RESPONSE_BYTES
    envIncludeBody,       \* USAGE_SCRIPT_INCLUDE_BODY
    \* ---- execute_usage_script, one entry per invocation ----
    active,           \* invocations this run starts
    script,           \* the substituted script: "valid" or "syntax_error"
    pc,               \* position of each invocation in execute_usage_script
    result,           \* "none" while running, "ok", or the AppError kind
    steps,            \* the orchestrator steps entered so far, in order
    runtimes,         \* live rquickjs::Runtime values owned
    contexts,         \* live rquickjs::Context values owned
    request,          \* request JSON produced by phase 1 (input of step 3)
    dnsAnswer,        \* what lookup_host returned to validate_request_url
    dnsLookups,       \* lookups issued by validate_request_url
    validations,      \* calls of validate_request_url
    contacted,        \* hosts an HTTP request of this invocation was sent to
    connected,        \* addresses the HTTP client opened a connection to for request.url
    served,           \* redirect targets the HTTP client received and could follow
    response,         \* the response handed back by req.send()
    value,            \* the value produced by the extractor in phase 2
    \* ---- send_http_request after req.send(): the response body ----
    serverBody,       \* the chunks the server streams as its response body
    stream,           \* chunks of resp.bytes_stream() not yet yielded
    total,            \* read_response_body: total
    buf,              \* read_response_body: buf
    message,          \* the message of the usage_script.http_error returned
    \* ---- the interpreter sessions ----
    heap,             \* per session: which ceiling it hit, which invocations ran in it
    globals,          \* global object of each invocation's latest Context
    observed,         \* per evaluation: the text evaluated and the globals it found
    \* ---- phase 2 output ----
    resultJson,       \* result_json: what ctx.json_stringify produced
    parsed,           \* result: the serde_json::Value parsed from result_json
    returned,         \* the value execute_usage_script returned in Ok
    \* ---- wall-clock time (std::time::Instant, milliseconds) ----
    now,              \* what Instant::now() returns
    timeout_secs,     \* the caller's timeout of each invocation
    startedAt,        \* the instant execute_usage_script was called
    deadline,         \* deadline captured by that Runtime's interrupt handler
    clientTimeout,    \* the Duration given to Client::builder().timeout
    httpDeadline,     \* the instant the client's timeout of the request expires
    \* ---- a pure function applied to one input ----
    fnIn, fnOut,
    \* ---- is_disallowed_ip applied to one address ----
    ipArg, policyArg, ipVerdict,
    \* ---- server entry points ----
    entry,            \* "bin" (src/bin/server.rs) or "example" (examples/server.rs)
    envHost,          \* HOST
    envAllowInsecure, \* ALLOW_HTTP_BASIC_OVER_HTTP
    mainPc,           \* position of main
    bindIp,           \* addr.ip()
    servedPolicy,     \* policy parse_egress_policy gave the last usage query served
    \* ---- web router (web_api::create_router) ----
    webPassword,      \* the password create_router was given
    envEnableHsts,    \* ENABLE_HSTS
    envRateLimitNum,  \* WEB_RATE_LIMIT_NUM
    envRateLimitWindow, \* WEB_RATE_LIMIT_WINDOW_SECS
    webActive,        \* the HTTP requests this run sends to the router
    webReq,           \* each request: route, method, Authorization, x-csrf-token
    webPc,            \* where each request is in the layers of the router
    webResp,          \* the response built for each request so far
    webHandled,       \* whether the request was passed to its handler
    rlWindowStart,    \* RateLimitState.window_start
    rlCount,          \* RateLimitState.count
    rlHolder,         \* the request holding the Mutex of RateLimitState
    rlForwarded       \* requests passed to next.run since the last window reset

limitEnvVars == <<envMaxBodyBytes, envMaxHeaderCount, envMaxResponseBytes, envIncludeBody>>
envVars == <<envPolicy, envAllowedHosts, envRedirects, limitEnvVars>>
httpVars == <<serverBody, stream, total, buf, message>>
interpVars == <<heap, globals, observed>>
outVars == <<resultJson, parsed, returned>>
fnVars == <<fnIn, fnOut>>
timeVars == <<now, timeout_secs, startedAt, deadline, clientTimeout, httpDeadline>>
engineVars == <<active, script, pc, result, steps, runtimes, contexts, request, dnsAnswer,
                connected,
                dnsLookups, validations, contacted, served, response, value,
                httpVars, interpVars, outVars, timeVars>>
ipVars == <<ipArg, policyArg, ipVerdict>>
serverVars == <<entry, envHost, envAllowInsecure, mainPc, bindIp, servedPolicy>>
webVars == <<webPassword, envEnableHsts, envRateLimitNum, envRateLimitWindow, webActive,
             webReq, webPc, webResp, webHandled, rlWindowStart, rlCount, rlHolder,
             rlForwarded>>
vars == <<envVars, engineVars, ipVars, serverVars, fnVars, webVars>>

----------------------------------------------------------------------------
(* Strings *)

UpperChars == <<"A","B","C","D","E","F","G","H","I","J","K","L","M",
                "N","O","P","Q","R","S","T","U","V","W","X","Y","Z">>
LowerChars == <<"a","b","c","d","e","f","g","h","i","j","k","l","m",
                "n","o","p","q","r","s","t","u","v","w","x","y","z">>

\* char::to_ascii_lowercase
CharToAsciiLowercase(c) ==
    IF \E k \in 1..26 : UpperChars[k] = c
    THEN LowerChars[CHOOSE k \in 1..26 : UpperChars[k] = c]
    ELSE c

\* str::to_ascii_lowercase
to_ascii_lowercase(s) == [k \in 1..Len(s) |-> CharToAsciiLowercase(s[k])]

IsWhitespace(c) == c \in {" ", "\t", "\n", "\r"}

RECURSIVE trim_start(_)
trim_start(s) ==
    IF s # <<>> /\ IsWhitespace(Head(s)) THEN trim_start(Tail(s)) ELSE s

RECURSIVE trim_end(_)
trim_end(s) ==
    IF s # <<>> /\ IsWhitespace(s[Len(s)])
    THEN trim_end(SubSeq(s, 1, Len(s) - 1)) ELSE s

\* str::trim
trim(s) == trim_end(trim_start(s))

\* str::trim_end_matches('.')
RECURSIVE trim_end_dots(_)
trim_end_dots(s) ==
    IF s # <<>> /\ s[Len(s)] = "."
    THEN trim_end_dots(SubSeq(s, 1, Len(s) - 1)) ELSE s

\* str::split(','): the pieces between commas, empty pieces included
RECURSIVE SplitFrom(_, _, _)
SplitFrom(s, k, piece) ==
    IF k > Len(s) THEN <<piece>>
    ELSE IF s[k] = "," THEN <<piece>> \o SplitFrom(s, k + 1, <<>>)
    ELSE SplitFrom(s, k + 1, Append(piece, s[k]))
split_comma(s) == SplitFrom(s, 1, <<>>)

\* An environment variable: unset, or set to a string.
EnvUnset == [set |-> FALSE, val |-> <<>>]
EnvSet(s) == [set |-> TRUE, val |-> s]

\* Lines 402-407: value.trim().parse::<usize>(), the default when the variable
\* is unset or does not parse.  usize::from_str takes an optional '+' and then
\* one or more decimal digits (values of the model stay below 10 digits).
DigitChars == <<"0","1","2","3","4","5","6","7","8","9">>
IsDigit(c) == \E k \in 1..10 : DigitChars[k] = c
DigitValue(c) == (CHOOSE k \in 1..10 : DigitChars[k] = c) - 1

RECURSIVE DigitsValue(_, _)
DigitsValue(s, acc) ==
    IF s = <<>> THEN acc ELSE DigitsValue(Tail(s), 10 * acc + DigitValue(Head(s)))

ParseUsize(s) ==
    LET digits == IF s # <<>> /\ Head(s) = "+" THEN Tail(s) ELSE s
    IN  IF digits # <<>> /\ \A k \in 1..Len(digits) : IsDigit(digits[k])
        THEN [ok |-> TRUE, val |-> DigitsValue(digits, 0)]
        ELSE [ok |-> FALSE, val |-> 0]

parse_env_usize(env, default) ==
    IF env.set /\ ParseUsize(trim(env.val)).ok
    THEN ParseUsize(trim(env.val)).val
    ELSE default

----------------------------------------------------------------------------
(* Egress policy evaluator *)

RECURSIVE BitAnd(_, _)
BitAnd(x, y) ==
    IF x = 0 \/ y = 0 THEN 0
    ELSE (x % 2) * (y % 2) + 2 * BitAnd(x \div 2, y \div 2)

V4(a, b, c, d) == [v |-> 4, o |-> <<a, b, c, d>>]
V6(a, b, c, d, e, f, g, h) == [v |-> 6, o |-> <<a, b, c, d, e, f, g, h>>]

ipv4_is_private_narrow(ip) ==
    LET a == ip.o[1]  b == ip.o[2]
    IN  a = 10 \/ (a = 172 /\ b = 16) \/ (a = 192 /\ b = 168)

ipv4_is_private(ip) ==
    LET a == ip.o[1]  b == ip.o[2]
    IN  a = 10 \/ (a = 172 /\ BitAnd(b, 240) = 16) \/ (a = 192 /\ b = 168)

ipv4_is_loopback(ip) == ip.o[1] = 127

ipv4_is_link_local(ip) == ip.o[1] = 169 /\ ip.o[2] = 254

ipv4_is_multicast(ip) == BitAnd(ip.o[1], 240) = 224

ipv4_is_broadcast(ip) == ip.o = <<255, 255, 255, 255>>

ipv4_is_unspecified(ip) == ip.o = <<0, 0, 0, 0>>

ipv6_is_loopback(ip) == ip.o = <<0, 0, 0, 0, 0, 0, 0, 1>>

ipv6_is_unspecified(ip) == ip.o = <<0, 0, 0, 0, 0, 0, 0, 0>>

\* 0xff00
ipv6_is_multicast(ip) == BitAnd(ip.o[1], 65280) = 65280

\* 0xfe00, 0xfc00
ipv6_is_unique_local(ip) == BitAnd(ip.o[1], 65024) = 64512

\* 0xffc0, 0xfe80
ipv6_is_link_local(ip) == BitAnd(ip.o[1], 65472) = 65152

is_disallowed_ip(ip, policy) ==
    IF ip.v = 4
    THEN LET blocked == \/ ipv4_is_link_local(ip)
                        \/ ipv4_is_unspecified(ip)
                        \/ ipv4_is_multicast(ip)
                        \/ ipv4_is_broadcast(ip)
         IN  IF policy = "Strict"
             THEN blocked \/ ipv4_is_loopback(ip) \/ ipv4_is_private(ip)
             ELSE blocked
    ELSE LET blocked == \/ ipv6_is_link_local(ip)
                        \/ ipv6_is_unspecified(ip)
                        \/ ipv6_is_multicast(ip)
         IN  IF policy = "Strict"
             THEN blocked \/ ipv6_is_loopback(ip) \/ ipv6_is_unique_local(ip)
             ELSE blocked

parse_egress_policy(env) ==
    LET raw == IF env.set THEN env.val ELSE <<>>
        norm == to_ascii_lowercase(trim(raw))
    IN  IF norm = <<"s","t","r","i","c","t">> THEN "Strict"
        ELSE IF norm = <<"t","r","u","s","t","e","d">> THEN "Trusted"
        ELSE "Trusted"

\* env_flag: the exact values 1, true, TRUE, yes, on
env_flag(env) ==
    /\ env.set
    /\ env.val \in { <<"1">>, <<"t","r","u","e">>, <<"T","R","U","E">>,
                     <<"y","e","s">>, <<"o","n">> }

----------------------------------------------------------------------------
(* URL / request validator *)

HostNone == [kind |-> "none", ip |-> V4(0, 0, 0, 0), str |-> <<>>]
HostIp(ip, str) == [kind |-> "ip", ip |-> ip, str |-> str]
HostDomain(name) == [kind |-> "domain", ip |-> V4(0, 0, 0, 0), str |-> name]

\* What Url::parse gives for a raw URL: a parse failure, or scheme, userinfo and host.
UrlUnparseable ==
    [parses |-> FALSE, scheme |-> "", username |-> <<>>, password |-> FALSE,
     host |-> HostNone]
Url(scheme, username, password, host) ==
    [parses |-> TRUE, scheme |-> scheme, username |-> username,
     password |-> password, host |-> host]

\* parse_allowed_hosts: None (here <<>>, never a configured list) or the entries
parse_allowed_hosts(env) ==
    IF ~env.set THEN [some |-> FALSE, entries |-> <<>>]
    ELSE LET pieces == split_comma(env.val)
             norm == [k \in 1..Len(pieces) |->
                         to_ascii_lowercase(trim_end_dots(trim(pieces[k])))]
             entries == SelectSeq(norm, LAMBDA e : e # <<>>)
         IN  IF entries = <<>> THEN [some |-> FALSE, entries |-> <<>>]
             ELSE [some |-> TRUE, entries |-> entries]

\* Faulty variant: an entry also admits the hosts below it.
HostAllowlistedWithSubdomains(host, allowed) ==
    LET normalized_host == to_ascii_lowercase(trim_end_dots(host.str))
    IN  \E k \in 1..Len(allowed.entries) :
           LET e == allowed.entries[k]
           IN  /\ Len(normalized_host) >= Len(e)
               /\ SubSeq(normalized_host, Len(normalized_host) - Len(e) + 1,
                         Len(normalized_host)) = e

\* Lines 469-471
HostAllowlisted(host, allowed) ==
    LET normalized_host == to_ascii_lowercase(trim_end_dots(host.str))
    IN  \E k \in 1..Len(allowed.entries) : allowed.entries[k] = normalized_host

\* Faulty variant: looks at the password only.
HasUserinfoPasswordOnly(url) == url.password

\* Line 452: !url.username().is_empty() || url.password().is_some()
HasUserinfo(url) == url.username # <<>> \/ url.password

\* validate_request_url up to the point where it either returns or awaits
\* resolve_host_ips: err is the AppError kind ("none" when no check failed),
\* lookup says that a DNS lookup is issued, policy is the policy read (line 481).
ValidateUrlSync(url, allowedEnv, policyEnv) ==
    LET policy == parse_egress_policy(policyEnv)
        allowed == parse_allowed_hosts(allowedEnv)
        Ret(kind, lookup) == [err |-> kind, lookup |-> lookup, policy |-> policy]
    IN  IF ~url.parses THEN Ret("usage_script.url_invalid", FALSE)
        ELSE IF url.scheme # "http" /\ url.scheme # "https"
        THEN Ret("usage_script.url_scheme_not_allowed", FALSE)
        ELSE IF HasUserinfo(url)
        THEN Ret("usage_script.url_userinfo_not_allowed", FALSE)
        ELSE IF url.host.kind = "none"
        THEN Ret("usage_script.url_host_missing", FALSE)
        ELSE IF allowed.some /\ ~HostAllowlisted(url.host, allowed)
        THEN Ret("usage_script.url_host_not_allowed", FALSE)
        ELSE IF url.host.kind = "ip"
        THEN IF is_disallowed_ip(url.host.ip, policy)
             THEN Ret("usage_script.url_blocked", FALSE)
             ELSE Ret("none", FALSE)
        ELSE Ret("none", TRUE)

\* What lookup_host returned: an error, or a (possibly empty) set of addresses.
DnsError == [ok |-> FALSE, ips |-> {}]
DnsOk(ips) == [ok |-> TRUE, ips |-> ips]
NoDns == [ok |-> FALSE, ips |-> {}]

\* Faulty variant: accepts a result as soon as one address is allowed.
ValidateResolvedAnyAllowed(answer, policy) ==
    IF ~answer.ok THEN "usage_script.dns_lookup_failed"
    ELSE IF answer.ips = {} THEN "usage_script.dns_lookup_failed"
    ELSE IF \A ip \in answer.ips : is_disallowed_ip(ip, policy)
    THEN "usage_script.url_blocked"
    ELSE "none"

\* resolve_host_ips and the check of its result in validate_request_url
ValidateResolved(answer, policy) ==
    IF ~answer.ok THEN "usage_script.dns_lookup_failed"
    ELSE IF answer.ips = {} THEN "usage_script.dns_lookup_failed"
    ELSE IF \E ip \in answer.ips : is_disallowed_ip(ip, policy)
    THEN "usage_script.url_blocked"
    ELSE "none"

----------------------------------------------------------------------------
(* Inputs of the engine model *)

Invocations == {1, 2}

MaxDnsAnswers == 2

\* Policy::limited(5)
RedirectLimit == 5

DefaultMaxBodyBytes == 65536
DefaultMaxHeaderCount == 32

S_a_io == <<"a",".","i","o">>
S_a_io_dot == <<"a",".","i","o",".">>
S_b_io == <<"b",".","i","o">>
S_x_a_io == <<"x",".","a",".","i","o">>
S_loop4 == <<"1","2","7",".","0",".","0",".","1">>
S_priv4 == <<"1","0",".","0",".","0",".","5">>
S_pub4 == <<"9","3",".","1","8","4",".","2","1","6",".","3","4">>
S_meta4 == <<"1","6","9",".","2","5","4",".","1","6","9",".","2","5","4">>
S_loop6 == <<"[",":",":","1","]">>
S_user == <<"u">>

Loop4 == V4(127, 0, 0, 1)
Priv4 == V4(10, 0, 0, 5)
Pub4 == V4(93, 184, 216, 34)
Meta4 == V4(169, 254, 169, 254)
Loop6 == V6(0, 0, 0, 0, 0, 0, 0, 1)

UrlPublicDomain == Url("https", <<>>, FALSE, HostDomain(S_a_io))
UrlLoopback == Url("http", <<>>, FALSE, HostIp(Loop4, S_loop4))

\* request.url values a script can produce
RequestUrls ==
    { UrlUnparseable,
      Url("ftp", <<>>, FALSE, HostDomain(S_a_io)),
      Url("javascript", <<>>, FALSE, HostNone),
      Url("ftp", S_user, TRUE, HostIp(Loop4, S_loop4)),
      Url("http", S_user, TRUE, HostDomain(S_a_io)),
      Url("https", S_user, FALSE, HostIp(Loop4, S_loop4)),
      Url("http", <<>>, TRUE, HostIp(Pub4, S_pub4)),
      UrlPublicDomain,
      Url("http", <<>>, FALSE, HostDomain(S_a_io_dot)),
      Url("http", <<>>, FALSE, HostDomain(S_b_io)),
      Url("https", <<>>, FALSE, HostDomain(S_x_a_io)),
      UrlLoopback,
      Url("http", <<>>, FALSE, HostIp(Priv4, S_priv4)),
      Url("http", <<>>, FALSE, HostIp(Pub4, S_pub4)),
      Url("http", <<>>, FALSE, HostIp(Meta4, S_meta4)),
      Url("http", <<>>, FALSE, HostIp(Loop6, S_loop6)) }

\* The Location targets a server may answer with.
RedirectTargets == { UrlLoopback, UrlPublicDomain }

\* Addresses a DNS lookup may return.
DnsIps == { Pub4, Loop4, Meta4 }
DnsAnswers ==
    { DnsError } \cup
    { DnsOk(ips) : ips \in { x \in SUBSET DnsIps : Cardinality(x) <= MaxDnsAnswers } }

S_GET == <<"G","E","T">>
S_BAD_METHOD == <<"G"," ","T">>
S_Host == <<" ","H","o","s","T">>
S_Accept == <<"A","c","c","e","p","t">>

\* The JSON text phase 1 hands to serde_json::from_str::<RequestConfig>:
\* ill-formed for RequestConfig, or url, method, headers and body (-1: no body).
RequestMalformed ==
    [wellformed |-> FALSE, url |-> UrlUnparseable, method |-> <<>>,
     headers |-> <<>>, body_len |-> -1]
RequestConfig(url, method, headers, body_len) ==
    [wellformed |-> TRUE, url |-> url, method |-> method,
     headers |-> headers, body_len |-> body_len]
NoRequest == RequestMalformed

\* n header names, all different: x01, x02, ...
HeaderNamed(k) == <<"x", DigitChars[(k \div 10) + 1], DigitChars[(k % 10) + 1]>>
Headers(n) == [k \in 1..n |-> HeaderNamed(k)]

S_0 == <<"0">>
S_1 == <<"1">>
S_3 == <<"3">>
S_3_sp == <<" ","3"," ">>
S_minus3 == <<"-","3">>
S_4 == <<"4">>
S_plus4_sp == <<" ","+","4"," ">>
S_4k == <<"4","k">>
S_yes == <<"y","e","s">>

\* The small limits these values configure, in place of the defaults.
SmallMaxBodyBytes == ParseUsize(S_3).val
SmallMaxHeaderCount == ParseUsize(S_1).val
SmallMaxResponseBytes == ParseUsize(S_4).val

RequestJsons ==
    { RequestMalformed } \cup
    { RequestConfig(u, S_GET, <<>>, -1) : u \in RequestUrls } \cup
    { RequestConfig(UrlLoopback, S_BAD_METHOD, <<>>, -1),
      RequestConfig(UrlLoopback, <<>>, <<>>, -1),
      RequestConfig(UrlLoopback, S_GET, <<S_Host>>, -1),
      RequestConfig(UrlLoopback, S_GET, <<S_Accept>>, DefaultMaxBodyBytes),
      RequestConfig(UrlLoopback, S_GET, <<>>, DefaultMaxBodyBytes + 1),
      RequestConfig(UrlLoopback, S_GET, Headers(SmallMaxHeaderCount), SmallMaxBodyBytes),
      RequestConfig(UrlLoopback, S_GET, <<>>, SmallMaxBodyBytes + 1),
      RequestConfig(UrlLoopback, S_GET, Headers(SmallMaxHeaderCount + 1), -1),
      RequestConfig(UrlLoopback, S_GET, Headers(DefaultMaxHeaderCount), 0),
      RequestConfig(UrlLoopback, S_GET, Headers(DefaultMaxHeaderCount + 1), -1),
      RequestConfig(UrlLoopback, S_BAD_METHOD, <<S_Host>>, DefaultMaxBodyBytes + 1) }

\* Environment values the engine runs under.
S_strict == <<"s","t","r","i","c","t">>
S_Strict_sp == <<" ","S","t","r","i","c","t"," ">>
S_trusted == <<"t","r","u","s","t","e","d">>
S_true == <<"t","r","u","e">>
S_True == <<"T","r","u","e">>
S_allow == <<"A",".","i","o",".",","," ","1","2","7",".","0",".","0",".","1",",">>

EnginePolicyEnvs == { EnvUnset, EnvSet(S_strict), EnvSet(S_Strict_sp), EnvSet(S_trusted) }
EngineAllowedEnvs == { EnvUnset, EnvSet(S_allow) }
EngineRedirectEnvs == { EnvUnset, EnvSet(S_true), EnvSet(S_True) }

\* Allowlists: entries in another case, with trailing dots and blanks; a
\* wildcard and a parent domain; only separators.
S_allow_wild == <<"*",".","a",".","i","o",",","i","o">>
S_allow_mixed == <<" ","X",".","a",".","I","O",".","."," ",",","1","0",".","0",".","0",".","5">>
S_allow_blank == <<" ",","," ",",">>
AllowlistEnvs ==
    { EnvSet(S_allow), EnvSet(S_allow_wild), EnvSet(S_allow_mixed), EnvSet(S_allow_blank) }

----------------------------------------------------------------------------
(* Result validator *)

\* A serde_json::Value, as far as validation reads it: its type, for an object
\* the <<key, type of the value>> pairs, for an array its elements.
JScalar(t) == [t |-> t, fields |-> {}, items |-> <<>>]
JObject(fields) == [t |-> "object", fields |-> fields, items |-> <<>>]
JArray(items) == [t |-> "array", fields |-> {}, items |-> items]
NoValue == JScalar("null")

contains_key(obj, key) == \E f \in obj.fields : f[1] = key
FieldType(obj, key) == (CHOOSE f \in obj.fields : f[1] = key)[2]

\* Faulty variant: takes null for a value of the wrong type.
FieldTypeErrorOnNull(obj, key, type) ==
    /\ contains_key(obj, key)
    /\ FieldType(obj, key) # type

\* obj.contains_key(key) && !result[key].is_null() && !result[key].is_<type>()
FieldTypeError(obj, key, type) ==
    /\ contains_key(obj, key)
    /\ FieldType(obj, key) # "null"
    /\ FieldType(obj, key) # type

validate_single_usage(v) ==
    IF v.t # "object" THEN "usage_script.must_return_object"
    ELSE IF FieldTypeError(v, "isValid", "bool") THEN "usage_script.isvalid_type_error"
    ELSE IF FieldTypeError(v, "invalidMessage", "string")
    THEN "usage_script.invalidmessage_type_error"
    ELSE IF FieldTypeError(v, "remaining", "number")
    THEN "usage_script.remaining_type_error"
    ELSE IF FieldTypeError(v, "unit", "string") THEN "usage_script.unit_type_error"
    ELSE IF FieldTypeError(v, "total", "number") THEN "usage_script.total_type_error"
    ELSE IF FieldTypeError(v, "used", "number") THEN "usage_script.used_type_error"
    ELSE IF FieldTypeError(v, "planName", "string")
    THEN "usage_script.planname_type_error"
    ELSE IF FieldTypeError(v, "extra", "string") THEN "usage_script.extra_type_error"
    ELSE "none"

\* Result<(), AppError> of validate_result: the kind of the error ("none" for
\* Ok) and, for an element of an array, its index and its own error.
ResultError(kind, idx, inner) == [kind |-> kind, idx |-> idx, inner |-> inner]
ResultOk == ResultError("none", -1, "none")

\* Faulty variant: validates the first element only.
FirstFailureHeadOnly(items, idx) ==
    IF items = <<>> \/ idx > 0 THEN ResultOk
    ELSE IF validate_single_usage(Head(items)) # "none"
    THEN ResultError("usage_script.array_validation_failed", idx,
                     validate_single_usage(Head(items)))
    ELSE ResultOk

\* Lines 659-667: the elements in order, from index idx on; `?` returns at the
\* first one that fails.
RECURSIVE FirstFailure(_, _)
FirstFailure(items, idx) ==
    IF items = <<>> THEN ResultOk
    ELSE IF validate_single_usage(Head(items)) # "none"
    THEN ResultError("usage_script.array_validation_failed", idx,
                     validate_single_usage(Head(items)))
    ELSE FirstFailure(Tail(items), idx + 1)

\* Lines 649-673
validate_result(v) ==
    IF v.t = "array"
    THEN IF v.items = <<>> THEN ResultError("usage_script.empty_array", -1, "none")
         ELSE FirstFailure(v.items, 0)
    ELSE ResultError(validate_single_usage(v), -1, "none")

GoodUsage == JObject({ <<"remaining", "number">>, <<"unit", "string">> })
BadUsage == JObject({ <<"remaining", "string">> })

\* A Runtime not built yet; no JSON text (Ok(None) of json_stringify).
NoSession == [ceiling |-> "none", users |-> {}]
NoJson == [some |-> FALSE, json |-> NoValue]

\* A JavaScript value has, beside the JSON types, the types "undefined",
\* "function" and "nan" (a number JSON cannot write).
NotSerialised == { "undefined", "function" }

\* JSON.stringify below the top level: fields that are undefined or functions
\* are left out, such elements of an array and NaN become null.
RECURSIVE JsonOf(_)
JsonOf(v) ==
    IF v.t = "object"
    THEN JObject({ <<f[1], IF f[2] = "nan" THEN "null" ELSE f[2]>> :
                       f \in { g \in v.fields : g[2] \notin NotSerialised } })
    ELSE IF v.t = "array"
    THEN JArray([k \in 1..Len(v.items) |->
                    IF v.items[k].t \in NotSerialised THEN JScalar("null")
                    ELSE JsonOf(v.items[k])])
    ELSE IF v.t = "nan" THEN JScalar("null")
    ELSE v

\* ctx.json_stringify (lines 165-166): None for a value JSON cannot write at
\* the top level, else the JSON text, held as the value it denotes.
json_stringify(v) ==
    IF v.t \in NotSerialised THEN NoJson ELSE [some |-> TRUE, json |-> JsonOf(v)]

\* serde_json::from_str::<Value> (line 191) of a text json_stringify wrote
from_str(text) == text.json

\* Faulty variant: returns the fields of the schema only.
ReturnedValueSchemaOnly(v) ==
    IF v.t = "object"
    THEN JObject({ f \in v.fields :
                       f[1] \in { "isValid", "invalidMessage", "remaining", "unit",
                                  "total", "used", "planName", "extra" } })
    ELSE v

\* Lines 202-204: validate_result borrows the value; Ok(result) returns it.
ReturnedValue(v) == v

ExtendedUsage == JObject({ <<"remaining", "number">>, <<"resetAt", "string">>,
                           <<"refresh", "function">>, <<"total", "nan">>,
                           <<"unit", "undefined">> })

\* Values an extractor may return.
ResultValues ==
    { GoodUsage, BadUsage, JScalar("number"), JArray(<<>>),
      JArray(<<GoodUsage>>), JArray(<<GoodUsage, BadUsage>>),
      ExtendedUsage, JScalar("undefined"), JArray(<<JScalar("undefined")>>) }

----------------------------------------------------------------------------
(* HTTP executor: the checks of send_http_request before the request is sent *)

TokenChars ==
    { UpperChars[k] : k \in 1..26 } \cup { LowerChars[k] : k \in 1..26 } \cup
    { "0","1","2","3","4","5","6","7","8","9",
      "!","#","$","%","&","'","*","+","-",".","^","_","|","~" }

\* reqwest::Method::from_str: a non-empty HTTP token (the grave accent, also a
\* token character, is left out of TokenChars: no method of the model uses it)
MethodParses(m) == m # <<>> /\ \A k \in 1..Len(m) : m[k] \in TokenChars

S_host == <<"h","o","s","t">>
ForbiddenHeaderNames ==
    { S_host,
      <<"c","o","n","t","e","n","t","-","l","e","n","g","t","h">>,
      <<"t","r","a","n","s","f","e","r","-","e","n","c","o","d","i","n","g">>,
      <<"c","o","n","n","e","c","t","i","o","n">>,
      <<"p","r","o","x","y","-","a","u","t","h","o","r","i","z","a","t","i","o","n">>,
      <<"p","r","o","x","y","-","a","u","t","h","e","n","t","i","c","a","t","e">>,
      <<"p","r","o","x","y","-","c","o","n","n","e","c","t","i","o","n">> }

is_forbidden_header_name(name) == name \in ForbiddenHeaderNames

\* Faulty variant: compares the header names as written, and takes any method.
PreSendCheckRaw(config, max_body_bytes, max_header_count) ==
    IF config.body_len >= 0 /\ config.body_len > max_body_bytes
    THEN "usage_script.request_body_too_large"
    ELSE IF Len(config.headers) > max_header_count
    THEN "usage_script.header_count_exceeded"
    ELSE IF \E k \in 1..Len(config.headers) : is_forbidden_header_name(config.headers[k])
    THEN "usage_script.forbidden_header"
    ELSE "none"

\* Lines 222-259 and 282-289: "none", or the kind of the first check that fails.
PreSendCheck(config, max_body_bytes, max_header_count) ==
    IF config.body_len >= 0 /\ config.body_len > max_body_bytes
    THEN "usage_script.request_body_too_large"
    ELSE IF Len(config.headers) > max_header_count
    THEN "usage_script.header_count_exceeded"
    ELSE IF \E k \in 1..Len(config.headers) :
                is_forbidden_header_name(to_ascii_lowercase(trim(config.headers[k])))
    THEN "usage_script.forbidden_header"
    ELSE IF ~MethodParses(config.method)
    THEN "usage_script.invalid_http_method"
    ELSE "none"

\* Faulty variant: follows redirects whatever the flag says.
redirect_policy_always(env) == [follow |-> TRUE, max |-> RedirectLimit]

\* Lines 261-266: Policy::limited(5) or Policy::none()
redirect_policy(env) ==
    IF env_flag(env) THEN [follow |-> TRUE, max |-> RedirectLimit]
    ELSE [follow |-> FALSE, max |-> 0]

DefaultMaxResponseBytes == 1048576

\* if text.len() > 200 { &text[..200] }
PreviewLimit == 200

----------------------------------------------------------------------------
(* HTTP executor: the response body *)

\* A chunk of the byte stream is a run of n equal characters: one-byte ASCII,
\* a two-byte UTF-8 character, or a byte that is not UTF-8 at all.
Chunk(kind, n) == [kind |-> kind, n |-> n]
BufWidth(kind) == IF kind = "wide" THEN 2 ELSE 1

\* chunk.len()
ChunkLen(c) == c.n * BufWidth(c.kind)

RECURSIVE BufLen(_)
BufLen(b) == IF b = <<>> THEN 0 ELSE ChunkLen(Head(b)) + BufLen(Tail(b))

\* String::from_utf8_lossy: valid characters are kept, every byte that is not
\* UTF-8 becomes U+FFFD, three bytes long.  A text is its runs of characters,
\* each w bytes wide.
TextWidth(kind) == CASE kind = "ascii" -> 1 [] kind = "wide" -> 2 [] OTHER -> 3
from_utf8_lossy(b) ==
    [k \in 1..Len(b) |-> [w |-> TextWidth(b[k].kind), n |-> b[k].n]]

\* String::len, in bytes
RECURSIVE TextLen(_)
TextLen(t) == IF t = <<>> THEN 0 ELSE Head(t).w * Head(t).n + TextLen(Tail(t))

\* str::is_char_boundary(idx), for idx <= len
RECURSIVE is_char_boundary(_, _)
is_char_boundary(t, idx) ==
    IF idx = 0 \/ t = <<>> THEN idx = 0
    ELSE LET run == Head(t).w * Head(t).n
         IN  IF idx <= run THEN idx % Head(t).w = 0
             ELSE is_char_boundary(Tail(t), idx - run)

\* the number of characters of &t[..idx], idx a character boundary
RECURSIVE CharsUpTo(_, _)
CharsUpTo(t, idx) ==
    IF idx = 0 \/ t = <<>> THEN 0
    ELSE LET run == Head(t).w * Head(t).n
         IN  IF idx <= run THEN idx \div Head(t).w
             ELSE Head(t).n + CharsUpTo(Tail(t), idx - run)

NoMessage == [status |-> 0, omitted |-> FALSE, body_bytes |-> 0, body_chars |-> 0,
              ellipsis |-> FALSE]

\* Faulty variant: puts the whole body in the message.
PreviewEndWhole(text) == TextLen(text)

\* Lines 357-361: where the preview of the body ends
PreviewEnd(text) == IF TextLen(text) > PreviewLimit THEN PreviewLimit ELSE TextLen(text)

\* Lines 353-371: the outcome for a status that is not 2xx.  Slicing a str off
\* a character boundary panics.
HttpError(status, text, env) ==
    IF ~env_flag(env)
    THEN [panic |-> FALSE,
          msg |-> [status |-> status, omitted |-> TRUE, body_bytes |-> 0,
                   body_chars |-> 0, ellipsis |-> FALSE]]
    ELSE IF ~is_char_boundary(text, PreviewEnd(text))
    THEN [panic |-> TRUE, msg |-> NoMessage]
    ELSE [panic |-> FALSE,
          msg |-> [status |-> status, omitted |-> FALSE,
                   body_bytes |-> PreviewEnd(text),
                   body_chars |-> CharsUpTo(text, PreviewEnd(text)),
                   ellipsis |-> TextLen(text) > PreviewLimit]]

----------------------------------------------------------------------------
(* Orchestrator: execute_usage_script as a state machine *)

Upd(f, i, v) == [f EXCEPT ![i] = v]

Phase1Pcs == { "p1_runtime", "p1_context", "p1_eval", "p1_request", "p1_stringify" }
Phase2Pcs == { "p2_runtime", "p2_context", "p2_eval", "p2_extractor",
               "p2_json_parse", "p2_call", "p2_stringify", "p2_from_str" }
NetworkPcs == { "validate_url", "dns_wait", "presend", "send_wait", "read_body" }

\* The Runtime is a local of the block from build_sandboxed_runtime on, the
\* Context from Context::full on.
RuntimeInScope(p) == p \in (Phase1Pcs \cup Phase2Pcs) \ { "p1_runtime", "p2_runtime" }
ContextInScope(p) == RuntimeInScope(p) /\ p \notin { "p1_context", "p2_context" }

\* Faulty variant: lets the value escape its block.
DropLeaked(n) == n

\* A block's local goes out of scope (end of block, or `?` returning early).
Drop(n) == n - 1

\* The error kinds each position of a phase block can return.
ErrorsAt(p) ==
    CASE p \in { "p1_runtime", "p2_runtime" } -> { "usage_script.runtime_create_failed" }
      [] p \in { "p1_context", "p2_context" } -> { "usage_script.context_create_failed" }
      [] p = "p1_eval" -> { "usage_script.config_parse_failed" }
      [] p = "p1_request" -> { "usage_script.request_missing" }
      [] p = "p1_stringify" -> { "usage_script.request_serialize_failed",
                                 "usage_script.serialize_none",
                                 "usage_script.get_string_failed" }
      [] p = "p2_eval" -> { "usage_script.config_reparse_failed" }
      [] p = "p2_extractor" -> { "usage_script.extractor_missing" }
      [] p = "p2_json_parse" -> { "usage_script.response_parse_failed" }
      [] p = "p2_call" -> { "usage_script.extractor_exec_failed" }
      [] p = "p2_stringify" -> { "usage_script.result_serialize_failed",
                                 "usage_script.serialize_none",
                                 "usage_script.get_string_failed" }
      [] p = "p2_from_str" -> { "usage_script.json_parse_failed" }
      [] OTHER -> {}

\* Positions of a block that only move on when they succeed.
NextPc(p) ==
    CASE p = "p1_eval" -> "p1_request"
      [] p = "p1_request" -> "p1_stringify"
      [] p = "p2_eval" -> "p2_extractor"
      [] p = "p2_extractor" -> "p2_json_parse"
      [] p = "p2_json_parse" -> "p2_call"
      [] OTHER -> p

\* Script texts: one that evaluates unless it throws, one that does not parse,
\* one that allocates until the memory limit of its Runtime is reached, and one
\* that loops until the interrupt handler of its Runtime stops it.
ScriptKinds == { "valid", "syntax_error", "exhausts_memory", "never_returns" }

\* The ceiling of its Runtime the evaluation of a script runs into.
CeilingHit(text) ==
    CASE text = "exhausts_memory" -> "memory"
      [] text = "never_returns" -> "time"
      [] OTHER -> "none"

\* Faulty variant: one Runtime, kept between calls, serves every invocation.
SessionOfShared(i) == 1

\* The Runtime an invocation evaluates in is the local of its own phase block
\* (lines 45, 117): sessions are named after their invocation.
SessionOf(i) == i

NewSession == [ceiling |-> "none", users |-> {}]

\* Faulty variant: phase 2 evaluates in the global object phase 1 left.
NewContextGlobalsKept(prev) == prev

\* Context::full (lines 46, 118) creates a global object with nothing of the
\* script in it.
NewContextGlobals(prev) == {}

PhaseOf(p) == IF p \in Phase1Pcs THEN 1 ELSE 2

\* Faulty variant: lets a script that does not parse evaluate.
EvalCanSucceedAlways(text) == TRUE

\* ctx.eval (lines 56, 128) returns Err for a script that is no valid program.
EvalCanSucceed(text) == text = "valid"

Finish(i, kind) ==
    /\ pc' = Upd(pc, i, "done")
    /\ result' = Upd(result, i, kind)

\* Lines 28-41: substitution cannot fail; phase 1 is entered.
Substitute(i) ==
    /\ i \in active
    /\ pc[i] = "idle"
    /\ \E text \in ScriptKinds : script' = Upd(script, i, text)
    /\ pc' = Upd(pc, i, "p1_runtime")
    /\ steps' = Upd(steps, i, <<"substitution", "phase1">>)
    /\ startedAt' = Upd(startedAt, i, now)
    /\ UNCHANGED <<active, result, runtimes, contexts, request, dnsAnswer, connected, dnsLookups,
                   validations, contacted, served, response, value>>
    /\ UNCHANGED <<httpVars, interpVars, outVars>>
    /\ UNCHANGED <<envVars, ipVars, serverVars, fnVars, webVars>>
    /\ UNCHANGED <<now, timeout_secs, deadline, clientTimeout, httpDeadline>>

\* Faulty variant: no lower bound.
ClampTimeoutUpperOnly(t) == IF t > 30 THEN 30 ELSE t

\* timeout_secs.clamp(2, 30) (lines 269, 640)
ClampTimeout(t) == IF t < 2 THEN 2 ELSE IF t > 30 THEN 30 ELSE t

\* Lines 640-642: max_ms, and the deadline counted from Instant::now()
MaxMs(t) == ClampTimeout(t) * 1000
DeadlineFrom(at, t) == at + MaxMs(t)

\* Duration::from_secs(timeout) (line 271), in milliseconds
DurationFromSecs(secs) == secs * 1000

Later(a, b) == IF a >= b THEN a ELSE b

\* build_sandboxed_runtime succeeds (lines 45, 117): the interrupt handler
\* captures a deadline counted from the instant the Runtime is built.
BuildRuntime(i) ==
    /\ pc[i] \in { "p1_runtime", "p2_runtime" }
    /\ runtimes' = Upd(runtimes, i, runtimes[i] + 1)
    /\ heap' = Upd(heap, SessionOf(i), NewSession)
    /\ deadline' = Upd(deadline, i, DeadlineFrom(now, timeout_secs[i]))
    /\ pc' = Upd(pc, i, IF pc[i] = "p1_runtime" THEN "p1_context" ELSE "p2_context")
    /\ UNCHANGED <<active, script, result, steps, contexts, request, dnsAnswer, connected, dnsLookups,
                   validations, contacted, served, response, value>>
    /\ UNCHANGED <<httpVars, globals, observed, outVars>>
    /\ UNCHANGED <<envVars, ipVars, serverVars, fnVars, webVars>>
    /\ UNCHANGED <<now, timeout_secs, startedAt, clientTimeout, httpDeadline>>

\* Context::full succeeds (lines 46, 118)
CreateContext(i) ==
    /\ pc[i] \in { "p1_context", "p2_context" }
    /\ contexts' = Upd(contexts, i, contexts[i] + 1)
    /\ globals' = Upd(globals, i, NewContextGlobals(globals[i]))
    /\ pc' = Upd(pc, i, IF pc[i] = "p1_context" THEN "p1_eval" ELSE "p2_eval")
    /\ UNCHANGED <<active, script, result, steps, runtimes, request, dnsAnswer, connected, dnsLookups,
                   validations, contacted, served, response, value>>
    /\ UNCHANGED <<httpVars, heap, observed, outVars>>
    /\ UNCHANGED <<envVars, ipVars, serverVars, fnVars, webVars>>
    /\ UNCHANGED timeVars

\* eval, config.get, json_parse, json_stringify succeed inside a block.  An
\* evaluation runs in the invocation's session, finds the global object of its
\* Context and leaves its own definitions in it.
ScriptStep(i) ==
    /\ NextPc(pc[i]) # pc[i]
    /\ pc' = Upd(pc, i, NextPc(pc[i]))
    /\ IF pc[i] \in { "p1_eval", "p2_eval" }
       THEN /\ EvalCanSucceed(script[i])
            /\ heap[SessionOf(i)].ceiling = "none"
            /\ heap' = Upd(heap, SessionOf(i),
                           [heap[SessionOf(i)] EXCEPT !.users = @ \cup {i}])
            /\ observed' = Upd(observed, i,
                               Append(observed[i],
                                      [phase |-> PhaseOf(pc[i]), text |-> script[i],
                                       found |-> globals[i]]))
            /\ globals' = Upd(globals, i, globals[i] \cup { PhaseOf(pc[i]) })
       ELSE UNCHANGED interpVars
    /\ UNCHANGED <<active, script, result, steps, runtimes, contexts, request, dnsAnswer, connected,
                   dnsLookups, validations, contacted, served, response, value>>
    /\ UNCHANGED <<httpVars, outVars>>
    /\ UNCHANGED <<envVars, ipVars, serverVars, fnVars, webVars>>
    /\ UNCHANGED timeVars

\* Faulty variant: the handler stops the script at any time.
InterruptHandlerAlways(at, limit) == TRUE

\* The interrupt handler (line 643): Instant::now() >= deadline
InterruptHandler(at, limit) == at >= limit

\* Code of phase 2 that may not end on its own: the second evaluation (a script
\* can read the clock or Math.random) and the extractor call.
MayLoopAt(p) == p \in { "p2_eval", "p2_call" }

\* The ceiling a failing step ran into: that of the script text when it is
\* evaluated; the time ceiling when code of phase 2 loops.
CeilingOfStep(i, loops) ==
    CASE MayLoopAt(pc[i]) /\ loops -> "time"
      [] pc[i] \in { "p1_eval", "p2_eval" } -> CeilingHit(script[i])
      [] OTHER -> "none"

\* Any step of a phase block fails: `?` returns the error and the block's
\* locals are dropped.  Code that does not end on its own runs until a call of
\* the interrupt handler returns true, which is when the deadline has passed.
ScriptStepFails(i) ==
    /\ \E kind \in ErrorsAt(pc[i]) : Finish(i, kind)
    /\ runtimes' = Upd(runtimes, i,
                       IF RuntimeInScope(pc[i]) THEN Drop(runtimes[i]) ELSE runtimes[i])
    /\ contexts' = Upd(contexts, i,
                       IF ContextInScope(pc[i]) THEN Drop(contexts[i]) ELSE contexts[i])
    /\ \E loops \in BOOLEAN :
          LET ceiling == CeilingOfStep(i, loops)
          IN  /\ loops => MayLoopAt(pc[i])
              /\ \E at \in { now, Later(now, deadline[i]) } :
                    /\ at # now => ceiling = "time"
                    /\ ceiling = "time" => InterruptHandler(at, deadline[i])
                    /\ now' = at
              /\ heap' = IF pc[i] \in { "p1_eval", "p2_eval", "p2_call" }
                             /\ (pc[i] = "p2_call" => loops)
                         THEN Upd(heap, SessionOf(i),
                                  [ceiling |-> IF ceiling # "none"
                                               THEN ceiling
                                               ELSE heap[SessionOf(i)].ceiling,
                                   users |-> heap[SessionOf(i)].users \cup {i}])
                         ELSE heap
    /\ UNCHANGED <<active, script, steps, request, dnsAnswer, connected, dnsLookups, validations,
                   contacted, served, response, value>>
    /\ UNCHANGED <<httpVars, globals, observed, outVars>>
    /\ UNCHANGED <<envVars, ipVars, serverVars, fnVars, webVars>>
    /\ UNCHANGED <<timeout_secs, startedAt, deadline, clientTimeout, httpDeadline>>

\* What the scripts and the network produce.  With several invocations in
\* flight the model follows fewer shapes of request, DNS answer and result for
\* each of them.
Concurrent == Cardinality(active) > 1
RequestJsonsNow ==
    IF Concurrent
    THEN { RequestMalformed, RequestConfig(UrlPublicDomain, S_GET, <<>>, -1) }
    ELSE RequestJsons
DnsAnswersNow ==
    IF Concurrent THEN { DnsError, DnsOk({ Pub4 }) } ELSE DnsAnswers
ResultValuesNow ==
    IF Concurrent THEN { GoodUsage, BadUsage } ELSE ResultValues

\* Lines 74-101: the request is serialised and phase 1's block ends.
P1Stringify(i) ==
    /\ pc[i] = "p1_stringify"
    /\ \E json \in RequestJsonsNow : request' = Upd(request, i, json)
    /\ runtimes' = Upd(runtimes, i, Drop(runtimes[i]))
    /\ contexts' = Upd(contexts, i, Drop(contexts[i]))
    /\ pc' = Upd(pc, i, "parse_config")
    /\ steps' = Upd(steps, i, Append(steps[i], "parse"))
    /\ UNCHANGED <<active, script, result, dnsAnswer, connected, dnsLookups, validations, contacted,
                   served, response, value>>
    /\ UNCHANGED <<httpVars, interpVars, outVars>>
    /\ UNCHANGED <<envVars, ipVars, serverVars, fnVars, webVars>>
    /\ UNCHANGED timeVars

\* Faulty variant: falls back to a default request when the JSON is ill-formed.
FromStrRequestConfigDefault(json) == TRUE

\* serde_json::from_str::<RequestConfig> (line 104)
FromStrRequestConfig(json) == json.wellformed

\* Lines 103-110
ParseConfig(i) ==
    /\ pc[i] = "parse_config"
    /\ IF FromStrRequestConfig(request[i])
       THEN /\ pc' = Upd(pc, i, "validate_url")
            /\ steps' = Upd(steps, i, Append(steps[i], "http"))
            /\ UNCHANGED result
       ELSE /\ Finish(i, "usage_script.request_format_invalid")
            /\ UNCHANGED steps
    /\ UNCHANGED <<active, script, runtimes, contexts, request, dnsAnswer, connected, dnsLookups,
                   validations, contacted, served, response, value>>
    /\ UNCHANGED <<httpVars, interpVars, outVars>>
    /\ UNCHANGED <<envVars, ipVars, serverVars, fnVars, webVars>>
    /\ UNCHANGED timeVars


\* Lines 220 and 434-484: validate_request_url runs until it returns or awaits
\* the DNS lookup.
ValidateUrl(i) ==
    /\ pc[i] = "validate_url"
    /\ validations' = Upd(validations, i, validations[i] + 1)
    /\ LET r == ValidateUrlSync(request[i].url, envAllowedHosts, envPolicy)
       IN  IF r.err # "none"
           THEN /\ Finish(i, r.err)
                /\ UNCHANGED dnsLookups
           ELSE /\ pc' = Upd(pc, i, IF r.lookup THEN "dns_wait" ELSE "presend")
                /\ dnsLookups' = Upd(dnsLookups, i,
                                     IF r.lookup THEN dnsLookups[i] + 1 ELSE dnsLookups[i])
                /\ UNCHANGED result
    /\ UNCHANGED <<active, script, steps, runtimes, contexts, request, dnsAnswer, connected, contacted,
                   served, response, value>>
    /\ UNCHANGED <<httpVars, interpVars, outVars>>
    /\ UNCHANGED <<envVars, ipVars, serverVars, fnVars, webVars>>
    /\ UNCHANGED timeVars

\* Lines 485-498 and 524-543: the lookup returns.
DnsReturn(i) ==
    /\ pc[i] = "dns_wait"
    /\ \E answer \in DnsAnswersNow :
          /\ dnsAnswer' = Upd(dnsAnswer, i, answer)
          /\ LET kind == ValidateResolved(answer, parse_egress_policy(envPolicy))
             IN  IF kind # "none"
                 THEN Finish(i, kind)
                 ELSE pc' = Upd(pc, i, "presend") /\ UNCHANGED result
    /\ UNCHANGED <<active, script, steps, runtimes, contexts, request, dnsLookups, connected, validations,
                   contacted, served, response, value>>
    /\ UNCHANGED <<httpVars, interpVars, outVars>>
    /\ UNCHANGED <<envVars, ipVars, serverVars, fnVars, webVars>>
    /\ UNCHANGED timeVars

\* Lines 222 and 233: the limits are read from the environment at each call.
PreSendKind(i) ==
    PreSendCheck(request[i],
                 parse_env_usize(envMaxBodyBytes, DefaultMaxBodyBytes),
                 parse_env_usize(envMaxHeaderCount, DefaultMaxHeaderCount))

\* Lines 222-304: the checks before sending, then req.send() issues the request.
PreSend(i) ==
    /\ pc[i] = "presend"
    /\ LET kind == PreSendKind(i)
       IN  IF kind # "none"
           THEN /\ Finish(i, kind)
                /\ UNCHANGED <<contacted, clientTimeout, httpDeadline>>
           ELSE /\ pc' = Upd(pc, i, "send_wait")
                /\ contacted' = Upd(contacted, i, <<request[i].url>>)
                /\ clientTimeout' = Upd(clientTimeout, i,
                                        DurationFromSecs(ClampTimeout(timeout_secs[i])))
                /\ httpDeadline' = Upd(httpDeadline, i,
                                       now + DurationFromSecs(ClampTimeout(timeout_secs[i])))
                /\ UNCHANGED result
    /\ UNCHANGED <<active, script, steps, runtimes, contexts, request, dnsAnswer, connected, dnsLookups,
                   validations, served, response, value>>
    /\ UNCHANGED <<httpVars, interpVars, outVars>>
    /\ UNCHANGED <<envVars, ipVars, serverVars, fnVars, webVars>>
    /\ UNCHANGED <<now, timeout_secs, startedAt, deadline>>

\* Client::builder().build() fails (lines 270-280), after the header checks.
ClientBuildFails(i) ==
    /\ pc[i] = "presend"
    /\ PreSendKind(i)
          \in { "none", "usage_script.invalid_http_method" }
    /\ Finish(i, "usage_script.client_create_failed")
    /\ UNCHANGED <<active, script, steps, runtimes, contexts, request, dnsAnswer, connected, dnsLookups,
                   validations, contacted, served, response, value>>
    /\ UNCHANGED <<httpVars, interpVars, outVars>>
    /\ UNCHANGED <<envVars, ipVars, serverVars, fnVars, webVars>>
    /\ UNCHANGED timeVars

\* Addresses the resolver of the HTTP client may give it when it connects. The
\* Client is built at lines 270-280 with a timeout and a redirect policy only: no
\* resolve() override and no DNS resolver pin it to the addresses that
\* validate_request_url looked up, so its connector looks the name up again.
ClientDnsIps == { Pub4, Loop4 }
ClientDnsIpsNow == IF Concurrent THEN { Pub4 } ELSE ClientDnsIps

\* Faulty variant: the client connects only to addresses validate_request_url saw.
ConnectAddrsPinned(url, validated) ==
    IF url.host.kind = "ip" THEN { url.host.ip }
    ELSE IF validated.ok THEN validated.ips ELSE {}

\* Lines 291 and 304: client.request(method, url) is given the URL, not an
\* address; for a literal IP the client connects to it, for a name to an address
\* of its own lookup.
ConnectAddrs(url, validated) ==
    IF url.host.kind = "ip" THEN { url.host.ip } ELSE ClientDnsIpsNow

\* Line 304, inside req.send(): the client opens the connection for request.url.
ClientConnects(i) ==
    /\ pc[i] = "send_wait"
    /\ connected[i] = {}
    /\ \E ip \in ConnectAddrs(request[i].url, dnsAnswer[i]) :
          connected' = Upd(connected, i, { ip })
    /\ UNCHANGED <<active, script, pc, result, steps, runtimes, contexts, request, dnsAnswer,
                   dnsLookups, validations, contacted, served, response, value>>
    /\ UNCHANGED <<httpVars, interpVars, outVars>>
    /\ UNCHANGED <<envVars, ipVars, serverVars, fnVars, webVars>>
    /\ UNCHANGED timeVars

\* Status codes a server answers with.
Statuses == { 200, 302, 404 }
NoResponse == 0
is_success(status) == 200 <= status /\ status < 300

\* Faulty variant: checks a redirect target against the egress policy before following.
RedirectTargetFollowedIfAllowed(target, policy) ==
    target.host.kind # "ip" \/ ~is_disallowed_ip(target.host.ip, policy)

\* Lines 262-266: the redirect policy only counts hops; a target is followed
\* whatever it is.
RedirectTargetFollowed(target, policy) == TRUE

\* Lines 304-347: req.send() fails (connect, timeout, too many redirects, ...).
SendFails(i) ==
    /\ pc[i] = "send_wait"
    /\ Finish(i, "usage_script.request_failed")
    /\ UNCHANGED <<active, script, steps, runtimes, contexts, request, dnsAnswer, connected, dnsLookups,
                   validations, contacted, served, response, value>>
    /\ UNCHANGED <<httpVars, interpVars, outVars>>
    /\ UNCHANGED <<envVars, ipVars, serverVars, fnVars, webVars>>
    /\ UNCHANGED timeVars

\* Lines 304-347: the client's timeout expires before a response arrived
\* (e.is_timeout()).
SendTimesOut(i) ==
    /\ pc[i] = "send_wait"
    /\ now' = Later(now, httpDeadline[i])
    /\ Finish(i, "usage_script.request_failed")
    /\ UNCHANGED <<active, script, steps, runtimes, contexts, request, dnsAnswer, connected, dnsLookups,
                   validations, contacted, served, response, value>>
    /\ UNCHANGED <<httpVars, interpVars, outVars>>
    /\ UNCHANGED <<envVars, ipVars, serverVars, fnVars, webVars>>
    /\ UNCHANGED <<timeout_secs, startedAt, deadline, clientTimeout, httpDeadline>>

\* req.send() returns a response that is not a redirect to follow.
SendReturns(i) ==
    /\ pc[i] = "send_wait"
    /\ connected[i] # {}
    /\ \E status \in Statuses : response' = Upd(response, i, status)
    /\ pc' = Upd(pc, i, "read_body")
    /\ stream' = Upd(stream, i, serverBody)
    /\ UNCHANGED <<active, script, result, steps, runtimes, contexts, request, dnsAnswer, connected,
                   dnsLookups, validations, contacted, served, value>>
    /\ UNCHANGED <<serverBody, total, buf, message, interpVars, outVars>>
    /\ UNCHANGED <<envVars, ipVars, serverVars, fnVars, webVars>>
    /\ UNCHANGED timeVars

\* The server answers 3xx with a Location: the client applies its redirect policy.
SendRedirected(i) ==
    /\ pc[i] = "send_wait"
    /\ connected[i] # {}
    /\ \E target \in RedirectTargets :
          LET policy == redirect_policy(envRedirects)
              hops == Len(contacted[i]) - 1
          IN  IF ~policy.follow
              THEN /\ response' = Upd(response, i, 302)
                   /\ pc' = Upd(pc, i, "read_body")
                   /\ stream' = Upd(stream, i, serverBody)
                   /\ UNCHANGED <<result, contacted, served>>
              ELSE IF hops < policy.max
                      /\ RedirectTargetFollowed(target, parse_egress_policy(envPolicy))
              THEN /\ served' = Upd(served, i, Append(served[i], target))
                   /\ contacted' = Upd(contacted, i, Append(contacted[i], target))
                   /\ UNCHANGED <<pc, result, response, stream>>
              ELSE /\ Finish(i, "usage_script.request_failed")
                   /\ served' = Upd(served, i, IF hops < policy.max
                                               THEN Append(served[i], target)
                                               ELSE served[i])
                   /\ UNCHANGED <<contacted, response, stream>>
    /\ UNCHANGED <<active, script, steps, runtimes, contexts, request, dnsAnswer, connected, dnsLookups,
                   validations, value>>
    /\ UNCHANGED <<serverBody, total, buf, message, interpVars, outVars>>
    /\ UNCHANGED <<envVars, ipVars, serverVars, fnVars, webVars>>
    /\ UNCHANGED timeVars

\* Lines 380-387: the stream yields an error instead of a chunk.
ReadChunkFails(i) ==
    /\ pc[i] = "read_body"
    /\ Finish(i, "usage_script.read_response_failed")
    /\ UNCHANGED <<active, script, steps, runtimes, contexts, request, dnsAnswer, connected, dnsLookups,
                   validations, contacted, served, response, value>>
    /\ UNCHANGED <<httpVars, interpVars, outVars>>
    /\ UNCHANGED <<envVars, ipVars, serverVars, fnVars, webVars>>
    /\ UNCHANGED timeVars

\* Lines 380-387: the client's timeout expires while the body is streamed; the
\* stream yields that error.
ReadTimesOut(i) ==
    /\ pc[i] = "read_body"
    /\ now' = Later(now, httpDeadline[i])
    /\ Finish(i, "usage_script.read_response_failed")
    /\ UNCHANGED <<active, script, steps, runtimes, contexts, request, dnsAnswer, connected, dnsLookups,
                   validations, contacted, served, response, value>>
    /\ UNCHANGED <<httpVars, interpVars, outVars>>
    /\ UNCHANGED <<envVars, ipVars, serverVars, fnVars, webVars>>
    /\ UNCHANGED <<timeout_secs, startedAt, deadline, clientTimeout, httpDeadline>>

\* Faulty variant: already refuses a total equal to the maximum.
ExceedsAtLimit(count, max_bytes) == count >= max_bytes

\* Line 389
Exceeds(count, max_bytes) == count > max_bytes

\* Lines 380-397: the stream yields a chunk; it is counted, and buffered unless
\* the total now exceeds max_bytes.
ReadChunk(i) ==
    /\ pc[i] = "read_body"
    /\ stream[i] # <<>>
    /\ LET chunk == Head(stream[i])
           max_bytes == parse_env_usize(envMaxResponseBytes, DefaultMaxResponseBytes)
       IN  /\ total' = Upd(total, i, total[i] + ChunkLen(chunk))
           /\ stream' = Upd(stream, i, Tail(stream[i]))
           /\ IF Exceeds(total[i] + ChunkLen(chunk), max_bytes)
              THEN /\ Finish(i, "usage_script.response_too_large")
                   /\ UNCHANGED buf
              ELSE /\ buf' = Upd(buf, i, Append(buf[i], chunk))
                   /\ UNCHANGED <<pc, result>>
    /\ UNCHANGED <<active, script, steps, runtimes, contexts, request, dnsAnswer, connected, dnsLookups,
                   validations, contacted, served, response, value>>
    /\ UNCHANGED <<serverBody, message, interpVars, outVars>>
    /\ UNCHANGED <<envVars, ipVars, serverVars, fnVars, webVars>>
    /\ UNCHANGED timeVars

\* Lines 349-373 and 399: the stream has ended; the text is returned to phase 2
\* or, for a status that is not 2xx, reported in an error.
ReadBody(i) ==
    /\ pc[i] = "read_body"
    /\ stream[i] = <<>>
    /\ IF is_success(response[i])
       THEN /\ pc' = Upd(pc, i, "p2_runtime")
            /\ steps' = Upd(steps, i, Append(steps[i], "phase2"))
            /\ UNCHANGED <<result, message>>
       ELSE LET e == HttpError(response[i], from_utf8_lossy(buf[i]), envIncludeBody)
            IN  /\ Finish(i, IF e.panic THEN "panic" ELSE "usage_script.http_error")
                /\ message' = Upd(message, i, e.msg)
                /\ UNCHANGED steps
    /\ UNCHANGED <<active, script, runtimes, contexts, request, dnsAnswer, connected, dnsLookups,
                   validations, contacted, served, response, value>>
    /\ UNCHANGED <<serverBody, stream, total, buf, interpVars, outVars>>
    /\ UNCHANGED <<envVars, ipVars, serverVars, fnVars, webVars>>
    /\ UNCHANGED timeVars

\* Lines 156-162: the extractor returns a value.
P2CallExtractor(i) ==
    /\ pc[i] = "p2_call"
    /\ \E v \in ResultValuesNow : value' = Upd(value, i, v)
    /\ pc' = Upd(pc, i, "p2_stringify")
    /\ UNCHANGED <<active, script, result, steps, runtimes, contexts, request, dnsAnswer, connected,
                   dnsLookups, validations, contacted, served, response>>
    /\ UNCHANGED <<httpVars, interpVars, outVars>>
    /\ UNCHANGED <<envVars, ipVars, serverVars, fnVars, webVars>>
    /\ UNCHANGED timeVars

\* Lines 164-188: the value the extractor returned is serialised; a value that
\* serialises to nothing is the error serialize_none.
P2Stringify(i) ==
    /\ pc[i] = "p2_stringify"
    /\ LET r == json_stringify(value[i])
       IN  IF r.some
           THEN /\ resultJson' = Upd(resultJson, i, r)
                /\ pc' = Upd(pc, i, "p2_from_str")
                /\ UNCHANGED <<result, runtimes, contexts>>
           ELSE /\ Finish(i, "usage_script.serialize_none")
                /\ runtimes' = Upd(runtimes, i, Drop(runtimes[i]))
                /\ contexts' = Upd(contexts, i, Drop(contexts[i]))
                /\ UNCHANGED resultJson
    /\ UNCHANGED <<active, script, steps, request, dnsAnswer, connected, dnsLookups, validations,
                   contacted, served, response, value>>
    /\ UNCHANGED <<httpVars, interpVars, parsed, returned>>
    /\ UNCHANGED <<envVars, ipVars, serverVars, fnVars, webVars>>
    /\ UNCHANGED timeVars

\* Lines 190-199: the result is parsed and phase 2's block ends.
P2FromStr(i) ==
    /\ pc[i] = "p2_from_str"
    /\ parsed' = Upd(parsed, i, from_str(resultJson[i]))
    /\ runtimes' = Upd(runtimes, i, Drop(runtimes[i]))
    /\ contexts' = Upd(contexts, i, Drop(contexts[i]))
    /\ pc' = Upd(pc, i, "validate_result")
    /\ steps' = Upd(steps, i, Append(steps[i], "validate"))
    /\ UNCHANGED <<active, script, result, request, dnsAnswer, connected, dnsLookups, validations,
                   contacted, served, response, value>>
    /\ UNCHANGED <<httpVars, interpVars, resultJson, returned>>
    /\ UNCHANGED <<envVars, ipVars, serverVars, fnVars, webVars>>
    /\ UNCHANGED timeVars

\* Lines 201-204
ValidateResult(i) ==
    /\ pc[i] = "validate_result"
    /\ LET kind == validate_result(parsed[i]).kind
       IN  /\ Finish(i, IF kind = "none" THEN "ok" ELSE kind)
           /\ returned' = Upd(returned, i,
                              IF kind = "none" THEN ReturnedValue(parsed[i]) ELSE NoValue)
    /\ UNCHANGED <<active, script, steps, runtimes, contexts, request, dnsAnswer, connected, dnsLookups,
                   validations, contacted, served, response, value>>
    /\ UNCHANGED <<httpVars, interpVars, resultJson, parsed>>
    /\ UNCHANGED <<envVars, ipVars, serverVars, fnVars, webVars>>
    /\ UNCHANGED timeVars

----------------------------------------------------------------------------
(* Web router: create_router and its layers (web_api/mod.rs) *)

WebRequests == {1, 2, 3}

S_admin == <<"a","d","m","i","n">>
S_root == <<"r","o","o","t">>
S_pw == <<"p","w">>
S_p_w == <<"p",":","w">>
S_bad == <<"b","a","d">>
S_Basic_sp == <<"B","a","s","i","c"," ">>
S_Basic_sp2 == <<"B","a","s","i","c"," "," ">>
S_basic_sp == <<"b","a","s","i","c"," ">>
S_Bearer_sp == <<"B","e","a","r","e","r"," ">>
S_csrf == <<"c","s","r","f">>
S_CSRF == <<"C","S","R","F">>
S_TRUE == <<"T","R","U","E">>
S_on == <<"o","n">>
S_2 == <<"2">>

\* str::strip_prefix
strip_prefix(s, prefix) ==
    IF Len(s) >= Len(prefix) /\ SubSeq(s, 1, Len(prefix)) = prefix
    THEN [some |-> TRUE, val |-> SubSeq(s, Len(prefix) + 1, Len(s))]
    ELSE [some |-> FALSE, val |-> <<>>]

RECURSIVE FindChar(_, _, _)
FindChar(s, c, k) ==
    IF k > Len(s) THEN 0 ELSE IF s[k] = c THEN k ELSE FindChar(s, c, k + 1)

\* str::split_once: the text before and after the first occurrence
split_once(s, c) ==
    LET k == FindChar(s, c, 1)
    IN  IF k = 0 THEN [some |-> FALSE, left |-> <<>>, right |-> <<>>]
        ELSE [some |-> TRUE, left |-> SubSeq(s, 1, k - 1),
              right |-> SubSeq(s, k + 1, Len(s))]

Join(user, pass) == user \o <<":">> \o pass

\* A header value: absent, or bytes that are visible ASCII (to_str succeeds) or
\* not.  An Authorization value is the text `lead` followed by base64 text,
\* which decodes (or not) to UTF-8 text (or not).
NoHeader == [present |-> FALSE, visible |-> FALSE, text |-> <<>>]
Header(text) == [present |-> TRUE, visible |-> TRUE, text |-> text]
OpaqueHeader == [present |-> TRUE, visible |-> FALSE, text |-> <<>>]

NoAuthorization ==
    [present |-> FALSE, visible |-> FALSE, lead |-> <<>>, decodes |-> FALSE,
     utf8 |-> FALSE, decoded |-> <<>>]
Authorization(lead, decoded) ==
    [present |-> TRUE, visible |-> TRUE, lead |-> lead, decodes |-> TRUE, utf8 |-> TRUE,
     decoded |-> decoded]
OpaqueAuthorization == [NoAuthorization EXCEPT !.present = TRUE]
NotBase64(lead) == [Authorization(lead, <<>>) EXCEPT !.decodes = FALSE]
NotUtf8(lead) == [Authorization(lead, <<>>) EXCEPT !.utf8 = FALSE]

WebRequest(route, method, auth, csrf) ==
    [route |-> route, method |-> method, auth |-> auth, csrf |-> csrf]
NoWebRequest == WebRequest("none", "GET", NoAuthorization, NoHeader)

WebResponse(status, headers) == [status |-> status, headers |-> headers]
NoWebResponse == WebResponse(0, {})

ContentTypeJson == <<"content-type", "application/json">>

\* AuthValidator::is_authorized (lines 459-474)
is_authorized(auth, basic_user, basic_pass) ==
    LET raw == strip_prefix(auth.lead, S_Basic_sp)
    IN  /\ raw.some
        /\ trim(raw.val) = <<>>
        /\ auth.decodes
        /\ auth.utf8
        /\ LET parts == split_once(auth.decoded, ":")
           IN  parts.some /\ parts.left = basic_user /\ parts.right = basic_pass

\* AuthValidator::unauthorized (lines 476-490)
unauthorized ==
    WebResponse(401, { <<"www-authenticate", "Basic realm">>, ContentTypeJson })

\* AuthValidator::forbidden_csrf (lines 492-502)
forbidden_csrf == WebResponse(403, { ContentTypeJson })

Accepted == [ok |-> TRUE, resp |-> NoWebResponse]
Rejected(resp) == [ok |-> FALSE, resp |-> resp]

\* Faulty variant: no token check.
validateCredentialsOnly(req, basic_pass, csrf_token) ==
    IF ~(req.auth.present /\ req.auth.visible) THEN Rejected(unauthorized)
    ELSE IF ~is_authorized(req.auth, S_admin, basic_pass) THEN Rejected(unauthorized)
    ELSE Accepted

\* AuthValidator::validate (lines 508-537); basic_user is "admin" (line 453),
\* csrf_token is always Some (line 369).
validate(req, basic_pass, csrf_token) ==
    IF ~(req.auth.present /\ req.auth.visible) THEN Rejected(unauthorized)
    ELSE IF ~is_authorized(req.auth, S_admin, basic_pass) THEN Rejected(unauthorized)
    ELSE IF /\ req.method # "GET" /\ req.method # "HEAD"
            /\ ~(req.csrf.present /\ req.csrf.visible /\ req.csrf.text = csrf_token)
    THEN Rejected(forbidden_csrf)
    ELSE Accepted

\* Lines 366-368: ENABLE_HSTS, on when unset
hsts_enabled(env) ==
    IF ~env.set THEN TRUE
    ELSE env.val \in { S_1, S_true, S_TRUE, S_yes, S_on }

\* entry(name).or_insert(value)
or_insert(headers, name, hv) ==
    IF \E h \in headers : h[1] = name THEN headers ELSE headers \cup { <<name, hv>> }

SecurityHeaders ==
    <<  <<"x-frame-options", "DENY">>,
        <<"x-content-type-options", "nosniff">>,
        <<"referrer-policy", "no-referrer">>  >>
HstsHeader == <<"strict-transport-security", "max-age=31536000; includeSubDomains">>

\* add_hsts_header after next.run returned (lines 546-563)
add_hsts_header(enabled, res) ==
    LET h0 == IF enabled THEN or_insert(res.headers, HstsHeader[1], HstsHeader[2])
              ELSE res.headers
        h1 == or_insert(h0, SecurityHeaders[1][1], SecurityHeaders[1][2])
        h2 == or_insert(h1, SecurityHeaders[2][1], SecurityHeaders[2][2])
        h3 == or_insert(h2, SecurityHeaders[3][1], SecurityHeaders[3][2])
    IN  WebResponse(res.status, h3)

\* parse_env_u64 (lines 319-323) and .filter(|value| *value > 0) (lines 375-376)
parse_env_u64(env) ==
    IF env.set /\ ParseUsize(trim(env.val)).ok
    THEN [some |-> TRUE, val |-> ParseUsize(trim(env.val)).val]
    ELSE [some |-> FALSE, val |-> 0]
Positive(opt) == IF opt.some /\ opt.val > 0 THEN opt ELSE [some |-> FALSE, val |-> 0]

\* Lines 424-434: the rate limiter is installed when both values are given.
RateLimit ==
    LET num == Positive(parse_env_u64(envRateLimitNum))
        window == Positive(parse_env_u64(envRateLimitWindow))
    IN  [installed |-> num.some /\ window.some, max |-> num.val,
         window |-> DurationFromSecs(window.val)]

\* rate_limit_middleware's 429 (lines 342-352)
too_many_requests == WebResponse(429, { ContentTypeJson })

\* What the routed service answers: a handler of the API, the API's fallback
\* api_not_found, serve_static for GET and HEAD, 405 for other methods on the
\* static routes.
HandlerResponses(req) ==
    CASE req.route = "api" -> { WebResponse(200, { ContentTypeJson }), WebResponse(500, {}) }
      [] req.route = "api_unknown" -> { WebResponse(404, {}) }
      [] OTHER -> IF req.method \in { "GET", "HEAD" }
                  THEN { WebResponse(200, { <<"content-type", "text/html">> }),
                         WebResponse(404, {}) }
                  ELSE { WebResponse(405, {}) }

Authorizations ==
    { NoAuthorization, OpaqueAuthorization, NotBase64(S_Basic_sp), NotUtf8(S_Basic_sp) }
        \cup { Authorization(S_Basic_sp, d) :
                  d \in { Join(S_admin, S_pw), Join(S_admin, S_p_w), Join(S_admin, S_bad),
                          Join(S_root, S_pw), S_admin \o S_pw, Join(S_admin, <<>>) } }
        \cup { Authorization(l, Join(S_admin, S_pw)) :
                  l \in { S_Basic_sp2, S_basic_sp, S_Bearer_sp } }
CsrfHeaders == { NoHeader, OpaqueHeader, Header(S_csrf), Header(S_CSRF) }
Methods == { "GET", "HEAD", "POST", "DELETE" }
Routes == { "api", "api_unknown", "static" }

AllWebRequests ==
    { WebRequest(r, mt, a, c) : r \in Routes, mt \in Methods, a \in Authorizations,
                                c \in CsrfHeaders }

\* With several requests in flight the model follows fewer shapes of each:
\* one that reaches serve_static (which answers 200 or 404) and one rejected
\* for each reason.
FewWebRequests ==
    { WebRequest("static", "GET", Authorization(S_Basic_sp, Join(S_admin, S_pw)), NoHeader),
      WebRequest("api", "GET", NoAuthorization, NoHeader),
      WebRequest("api", "POST", Authorization(S_Basic_sp, Join(S_admin, S_pw)), NoHeader) }

WebRequestsNow == IF Cardinality(webActive) > 1 THEN FewWebRequests ELSE AllWebRequests

NoHolder == 0

\* Faulty variant: the state is used without holding its Mutex.
MutexFreeAlways(holder) == TRUE

\* tokio::sync::Mutex: lock() returns when no guard is alive (line 337)
MutexFree(holder) == holder = NoHolder

MaxWebTicks == 2

engineVarsButNow ==
    <<active, script, pc, result, steps, runtimes, contexts, request, dnsAnswer, connected,
      dnsLookups, validations, contacted, served, response, value,
      httpVars, interpVars, outVars,
      timeout_secs, startedAt, deadline, clientTimeout, httpDeadline>>
webConfigVars == <<webPassword, envEnableHsts, envRateLimitNum, envRateLimitWindow, webActive>>
otherVars == <<envVars, engineVars, ipVars, serverVars, fnVars>>

\* A request reaches the router: the outermost layer is the rate limiter when
\* one is installed (lines 424-434), add_hsts_header otherwise.
WebArrive(r) ==
    /\ r \in webActive
    /\ webPc[r] = "none"
    /\ \E req \in WebRequestsNow : webReq' = Upd(webReq, r, req)
    /\ webPc' = Upd(webPc, r, IF RateLimit.installed THEN "rate_limit" ELSE "inner")
    /\ UNCHANGED <<webConfigVars, webResp, webHandled, rlWindowStart, rlCount, rlHolder,
                   rlForwarded>>
    /\ UNCHANGED otherVars

\* Line 337: state.lock().await
RateLimitLock(r) ==
    /\ webPc[r] = "rate_limit"
    /\ MutexFree(rlHolder)
    /\ rlHolder' = r
    /\ webPc' = Upd(webPc, r, "rl_window")
    /\ UNCHANGED <<webConfigVars, webReq, webResp, webHandled, rlWindowStart, rlCount,
                   rlForwarded>>
    /\ UNCHANGED otherVars

\* Lines 338-341: a window that has elapsed is restarted.
RateLimitWindow(r) ==
    /\ webPc[r] = "rl_window"
    /\ IF now - rlWindowStart >= RateLimit.window
       THEN rlWindowStart' = now /\ rlCount' = 0 /\ rlForwarded' = 0
       ELSE UNCHANGED <<rlWindowStart, rlCount, rlForwarded>>
    /\ webPc' = Upd(webPc, r, "rl_check")
    /\ UNCHANGED <<webConfigVars, webReq, webResp, webHandled, rlHolder>>
    /\ UNCHANGED otherVars

\* Lines 342-352: at the maximum the request is answered 429 and the guard is
\* dropped by the return.
RateLimitCheck(r) ==
    /\ webPc[r] = "rl_check"
    /\ IF rlCount >= RateLimit.max
       THEN /\ webResp' = Upd(webResp, r, too_many_requests)
            /\ webPc' = Upd(webPc, r, "responded")
            /\ rlHolder' = IF rlHolder = r THEN NoHolder ELSE rlHolder
       ELSE /\ webPc' = Upd(webPc, r, "rl_count")
            /\ UNCHANGED <<webResp, rlHolder>>
    /\ UNCHANGED <<webConfigVars, webReq, webHandled, rlWindowStart, rlCount, rlForwarded>>
    /\ UNCHANGED otherVars

\* Lines 353-356: the request is counted, the guard dropped, next.run called.
RateLimitCount(r) ==
    /\ webPc[r] = "rl_count"
    /\ rlCount' = rlCount + 1
    /\ rlForwarded' = rlForwarded + 1
    /\ rlHolder' = IF rlHolder = r THEN NoHolder ELSE rlHolder
    /\ webPc' = Upd(webPc, r, "inner")
    /\ UNCHANGED <<webConfigVars, webReq, webResp, webHandled, rlWindowStart>>
    /\ UNCHANGED otherVars

\* add_hsts_header has called next.run (line 545); the route's
\* ValidateRequestHeaderLayer (lines 381 and 411) runs AuthValidator::validate.
Authenticate(r) ==
    /\ webPc[r] = "inner"
    /\ LET v == validate(webReq[r], webPassword, S_csrf)
       IN  IF v.ok
           THEN /\ webPc' = Upd(webPc, r, "handler")
                /\ webHandled' = Upd(webHandled, r, TRUE)
                /\ UNCHANGED webResp
           ELSE /\ webPc' = Upd(webPc, r, "hsts_out")
                /\ webResp' = Upd(webResp, r, v.resp)
                /\ UNCHANGED webHandled
    /\ UNCHANGED <<webConfigVars, webReq, rlWindowStart, rlCount, rlHolder, rlForwarded>>
    /\ UNCHANGED otherVars

\* The routed service answers.
Handle(r) ==
    /\ webPc[r] = "handler"
    /\ \E resp \in HandlerResponses(webReq[r]) : webResp' = Upd(webResp, r, resp)
    /\ webPc' = Upd(webPc, r, "hsts_out")
    /\ UNCHANGED <<webConfigVars, webReq, webHandled, rlWindowStart, rlCount, rlHolder,
                   rlForwarded>>
    /\ UNCHANGED otherVars

\* Lines 545-563: next.run returned to add_hsts_header.
AddSecurityHeaders(r) ==
    /\ webPc[r] = "hsts_out"
    /\ webResp' = Upd(webResp, r, add_hsts_header(hsts_enabled(envEnableHsts), webResp[r]))
    /\ webPc' = Upd(webPc, r, "responded")
    /\ UNCHANGED <<webConfigVars, webReq, webHandled, rlWindowStart, rlCount, rlHolder,
                   rlForwarded>>
    /\ UNCHANGED otherVars

\* A second passes.
WebTick ==
    /\ now < DurationFromSecs(MaxWebTicks)
    /\ now' = now + DurationFromSecs(1)
    /\ UNCHANGED <<envVars, engineVarsButNow, ipVars, serverVars, fnVars, webVars>>

WebStep(r) ==
    \/ WebArrive(r)
    \/ RateLimitLock(r)
    \/ RateLimitWindow(r)
    \/ RateLimitCheck(r)
    \/ RateLimitCount(r)
    \/ Authenticate(r)
    \/ Handle(r)
    \/ AddSecurityHeaders(r)

NextWeb == WebTick \/ \E r \in WebRequests : WebStep(r)

\* No request is sent to the router.
WebIdle ==
    /\ webPassword = S_pw
    /\ envEnableHsts = EnvUnset
    /\ envRateLimitNum = EnvUnset
    /\ envRateLimitWindow = EnvUnset
    /\ webActive = {}
    /\ webReq = [r \in WebRequests |-> NoWebRequest]
    /\ webPc = [r \in WebRequests |-> "none"]
    /\ webResp = [r \in WebRequests |-> NoWebResponse]
    /\ webHandled = [r \in WebRequests |-> FALSE]
    /\ rlWindowStart = 0
    /\ rlCount = 0
    /\ rlHolder = NoHolder
    /\ rlForwarded = 0

EngineIdle ==
    /\ script = [i \in Invocations |-> "valid"]
    /\ pc = [i \in Invocations |-> "idle"]
    /\ result = [i \in Invocations |-> "none"]
    /\ steps = [i \in Invocations |-> <<>>]
    /\ runtimes = [i \in Invocations |-> 0]
    /\ contexts = [i \in Invocations |-> 0]
    /\ request = [i \in Invocations |-> NoRequest]
    /\ dnsAnswer = [i \in Invocations |-> NoDns]
    /\ dnsLookups = [i \in Invocations |-> 0]
    /\ validations = [i \in Invocations |-> 0]
    /\ contacted = [i \in Invocations |-> <<>>]
    /\ connected = [i \in Invocations |-> {}]
    /\ served = [i \in Invocations |-> <<>>]
    /\ response = [i \in Invocations |-> NoResponse]
    /\ value = [i \in Invocations |-> NoValue]
    /\ stream = [i \in Invocations |-> <<>>]
    /\ total = [i \in Invocations |-> 0]
    /\ buf = [i \in Invocations |-> <<>>]
    /\ message = [i \in Invocations |-> NoMessage]
    /\ heap = [s \in Invocations |-> NoSession]
    /\ globals = [i \in Invocations |-> {}]
    /\ observed = [i \in Invocations |-> <<>>]
    /\ resultJson = [i \in Invocations |-> NoJson]
    /\ parsed = [i \in Invocations |-> NoValue]
    /\ returned = [i \in Invocations |-> NoValue]
    /\ now = 0
    /\ startedAt = [i \in Invocations |-> 0]
    /\ deadline = [i \in Invocations |-> 0]
    /\ clientTimeout = [i \in Invocations |-> 0]
    /\ httpDeadline = [i \in Invocations |-> 0]

\* The timeout a caller that names none passes (handlers/providers.rs:201).
DefaultTimeoutSecs == 10
TimeoutIdle == timeout_secs = [i \in Invocations |-> DefaultTimeoutSecs]

\* No limit is configured and the server is not asked for a body.
HttpIdle ==
    /\ envMaxBodyBytes = EnvUnset
    /\ envMaxHeaderCount = EnvUnset
    /\ envMaxResponseBytes = EnvUnset
    /\ envIncludeBody = EnvUnset
    /\ serverBody = <<>>

FnIdle == fnIn = "none" /\ fnOut = [done |-> FALSE, val |-> <<>>]

IpIdle == ipArg = Loop4 /\ policyArg = "Strict" /\ ipVerdict = "unchecked"

ServerIdle ==
    /\ entry = "none"
    /\ envHost = EnvUnset
    /\ envAllowInsecure = EnvUnset
    /\ mainPc = "off"
    /\ bindIp = Loop4
    /\ servedPolicy = "none"


\* Bodies around the small limit: below it, exactly at it, above it in the
\* last chunk or in the first, and 4 bytes that are not UTF-8.
SmallBodies ==
    { <<>>,
      <<Chunk("ascii", SmallMaxResponseBytes - 1)>>,
      <<Chunk("ascii", 2), Chunk("ascii", SmallMaxResponseBytes - 2)>>,
      <<Chunk("ascii", 2), Chunk("ascii", SmallMaxResponseBytes - 1)>>,
      <<Chunk("ascii", SmallMaxResponseBytes + 1), Chunk("ascii", 1)>>,
      <<Chunk("wide", 1), Chunk("invalid", SmallMaxResponseBytes - 2)>> }

\* Bodies around the default limit.
BigBodies ==
    { <<Chunk("ascii", DefaultMaxResponseBytes)>>,
      <<Chunk("ascii", DefaultMaxResponseBytes - 1), Chunk("wide", 1)>>,
      <<Chunk("ascii", SmallMaxResponseBytes + 1)>> }

\* Bodies around the preview length: shorter, exactly as long, longer in ASCII,
\* and longer with a wider character lying across byte 200.
PreviewBodies ==
    { <<Chunk("ascii", 3)>>,
      <<Chunk("ascii", PreviewLimit)>>,
      <<Chunk("ascii", PreviewLimit + 1)>>,
      <<Chunk("wide", PreviewLimit \div 2), Chunk("ascii", 1)>>,
      <<Chunk("ascii", PreviewLimit - 1), Chunk("wide", 1)>>,
      <<Chunk("invalid", PreviewLimit \div 2)>> }

HttpScenario(mb, mh, mr, ib, body) ==
    [mb |-> mb, mh |-> mh, mr |-> mr, ib |-> ib, body |-> body]

\* The environments and response bodies send_http_request is run under.
HttpScenarios ==
    { HttpScenario(EnvUnset, EnvUnset, mr, EnvUnset, body) :
          mr \in { EnvSet(S_4), EnvSet(S_plus4_sp) }, body \in SmallBodies } \cup
    { HttpScenario(EnvUnset, EnvUnset, mr, EnvUnset, body) :
          mr \in { EnvUnset, EnvSet(S_4k) }, body \in BigBodies } \cup
    { HttpScenario(EnvUnset, EnvUnset, EnvUnset, ib, body) :
          ib \in { EnvUnset, EnvSet(S_1), EnvSet(S_True), EnvSet(S_yes) },
          body \in PreviewBodies } \cup
    { HttpScenario(mb, mh, EnvUnset, EnvUnset, <<Chunk("ascii", 2)>>) :
          mb \in { EnvSet(S_3), EnvSet(S_3_sp), EnvSet(S_minus3) },
          mh \in { EnvSet(S_1), EnvSet(S_0), EnvSet(S_4k) } }

\* One invocation of execute_usage_script under each environment.
Init ==
    /\ envPolicy \in EnginePolicyEnvs
    /\ envAllowedHosts \in EngineAllowedEnvs
    /\ envRedirects \in EngineRedirectEnvs
    /\ envMaxBodyBytes = EnvUnset
    /\ envMaxHeaderCount = EnvUnset
    /\ envMaxResponseBytes = EnvUnset
    /\ envIncludeBody = EnvUnset
    /\ serverBody = <<Chunk("ascii", 2)>>
    /\ active = {1}
    /\ EngineIdle
    /\ TimeoutIdle
    /\ IpIdle
    /\ ServerIdle
    /\ FnIdle
    /\ WebIdle

EngineStep(i) ==
    \/ Substitute(i)
    \/ BuildRuntime(i)
    \/ CreateContext(i)
    \/ ScriptStep(i)
    \/ ScriptStepFails(i)
    \/ P1Stringify(i)
    \/ ParseConfig(i)
    \/ ValidateUrl(i)
    \/ DnsReturn(i)
    \/ PreSend(i)
    \/ ClientBuildFails(i)
    \/ ClientConnects(i)
    \/ SendFails(i)
    \/ SendTimesOut(i)
    \/ SendReturns(i)
    \/ SendRedirected(i)
    \/ ReadChunkFails(i)
    \/ ReadTimesOut(i)
    \/ ReadChunk(i)
    \/ ReadBody(i)
    \/ P2CallExtractor(i)
    \/ P2Stringify(i)
    \/ P2FromStr(i)
    \/ ValidateResult(i)

Next == \E i \in Invocations : EngineStep(i)

Spec == Init /\ [][Next]_vars

\* One invocation under each HTTP scenario, the egress settings at their defaults.
InitHttp ==
    /\ envPolicy = EnvUnset
    /\ envAllowedHosts = EnvUnset
    /\ envRedirects = EnvUnset
    /\ \E sc \in HttpScenarios :
          /\ envMaxBodyBytes = sc.mb
          /\ envMaxHeaderCount = sc.mh
          /\ envMaxResponseBytes = sc.mr
          /\ envIncludeBody = sc.ib
          /\ serverBody = sc.body
    /\ active = {1}
    /\ EngineIdle
    /\ TimeoutIdle
    /\ IpIdle
    /\ ServerIdle
    /\ FnIdle
    /\ WebIdle

SpecHttp == InitHttp /\ [][Next]_vars

\* Every invocation is started: their steps interleave in any order.
InitConcurrent ==
    /\ envPolicy = EnvUnset
    /\ envAllowedHosts = EnvUnset
    /\ envRedirects = EnvUnset
    /\ envMaxBodyBytes = EnvUnset
    /\ envMaxHeaderCount = EnvUnset
    /\ envMaxResponseBytes = EnvUnset
    /\ envIncludeBody = EnvUnset
    /\ serverBody = <<Chunk("ascii", 2)>>
    /\ active = Invocations
    /\ EngineIdle
    /\ TimeoutIdle
    /\ IpIdle
    /\ ServerIdle
    /\ FnIdle
    /\ WebIdle

SpecConcurrent == InitConcurrent /\ [][Next]_vars

\* One invocation under each allowlist and each egress policy.
InitAllowlist ==
    /\ envPolicy \in { EnvUnset, EnvSet(S_strict) }
    /\ envAllowedHosts \in AllowlistEnvs
    /\ envRedirects = EnvUnset
    /\ envMaxBodyBytes = EnvUnset
    /\ envMaxHeaderCount = EnvUnset
    /\ envMaxResponseBytes = EnvUnset
    /\ envIncludeBody = EnvUnset
    /\ serverBody = <<Chunk("ascii", 2)>>
    /\ active = {1}
    /\ EngineIdle
    /\ TimeoutIdle
    /\ IpIdle
    /\ ServerIdle
    /\ FnIdle
    /\ WebIdle

SpecAllowlist == InitAllowlist /\ [][Next]_vars

----------------------------------------------------------------------------
(* The engine under a running clock *)

\* Caller timeouts: below the lower bound, at and around both bounds, far above.
TimeoutInputs == { 0, 1, 2, 3, 29, 30, 31, 2147483647 }

\* The instants at which a timer of the program is due: the deadline of each
\* live Runtime, the client timeout of each request in flight.
PendingTimers ==
    { deadline[i] : i \in { j \in Invocations : runtimes[j] > 0 } }
        \cup { httpDeadline[i] : i \in { j \in Invocations :
                                            pc[j] \in { "send_wait", "read_body" } } }

\* Time passes while the program does nothing; the clock is looked at when a
\* timer is due.
Tick ==
    /\ \E t \in PendingTimers : t > now /\ now' = t
    /\ UNCHANGED <<active, script, pc, result, steps, runtimes, contexts, request, dnsAnswer, connected,
                   dnsLookups, validations, contacted, served, response, value>>
    /\ UNCHANGED <<httpVars, interpVars, outVars>>
    /\ UNCHANGED <<envVars, ipVars, serverVars, fnVars, webVars>>
    /\ UNCHANGED <<timeout_secs, startedAt, deadline, clientTimeout, httpDeadline>>

InitTimed ==
    /\ envPolicy = EnvUnset
    /\ envAllowedHosts = EnvUnset
    /\ envRedirects = EnvUnset
    /\ envMaxBodyBytes = EnvUnset
    /\ envMaxHeaderCount = EnvUnset
    /\ envMaxResponseBytes = EnvUnset
    /\ envIncludeBody = EnvUnset
    /\ serverBody = <<Chunk("ascii", 2)>>
    /\ active = {1}
    /\ EngineIdle
    /\ \E t \in TimeoutInputs :
          timeout_secs = [i \in Invocations |-> IF i \in active THEN t ELSE DefaultTimeoutSecs]
    /\ IpIdle
    /\ ServerIdle
    /\ FnIdle
    /\ WebIdle

NextTimed == Next \/ Tick

SpecTimed == InitTimed /\ [][NextTimed]_vars

\* What an invocation does without any remote party: the steps of the program
\* itself, its interrupt checks and its timers.  A DNS answer, a response, a
\* redirect, a chunk of the body or a broken connection come from outside.
RemoteStep(i) ==
    \/ DnsReturn(i)
    \/ ClientConnects(i)
    \/ SendFails(i)
    \/ SendReturns(i)
    \/ SendRedirected(i)
    \/ ReadChunkFails(i)
    \/ ReadChunk(i)

OwnStep(i) ==
    \/ Substitute(i)
    \/ BuildRuntime(i)
    \/ CreateContext(i)
    \/ ScriptStep(i)
    \/ ScriptStepFails(i)
    \/ P1Stringify(i)
    \/ ParseConfig(i)
    \/ ValidateUrl(i)
    \/ PreSend(i)
    \/ ClientBuildFails(i)
    \/ SendTimesOut(i)
    \/ ReadTimesOut(i)
    \/ ReadBody(i)
    \/ P2CallExtractor(i)
    \/ P2Stringify(i)
    \/ P2FromStr(i)
    \/ ValidateResult(i)

\* The program's own steps, interrupt checks and timers happen when they can;
\* nothing is assumed of the remote parties or of the clock beyond them.
Fairness == \A i \in Invocations : WF_vars(OwnStep(i))

SpecFair == InitTimed /\ [][NextTimed]_vars /\ Fairness

----------------------------------------------------------------------------
(* Variable substitution (execute_usage_script, lines 28-41) *)

\* str::replace(from, to): every match of from, found from left to right and
\* not overlapping, is replaced by to; the text put in is not searched again.
RECURSIVE replace(_, _, _)
replace(s, from, to) ==
    IF Len(s) < Len(from) THEN s
    ELSE IF SubSeq(s, 1, Len(from)) = from
    THEN to \o replace(SubSeq(s, Len(from) + 1, Len(s)), from, to)
    ELSE <<Head(s)>> \o replace(Tail(s), from, to)

P_apiKey == <<"{","{","a","p","i","K","e","y","}","}">>
P_baseUrl == <<"{","{","b","a","s","e","U","r","l","}","}">>
P_accessToken == <<"{","{","a","c","c","e","s","s","T","o","k","e","n","}","}">>
P_userId == <<"{","{","u","s","e","r","I","d","}","}">>

\* Option<&str>
None == [some |-> FALSE, val |-> <<>>]
Some(v) == [some |-> TRUE, val |-> v]

\* Lines 29-41: four replacements, one after the other
SubstituteVariables(script_code, api_key, base_url, access_token, user_id) ==
    LET r1 == replace(replace(script_code, P_apiKey, api_key), P_baseUrl, base_url)
        r2 == IF access_token.some THEN replace(r1, P_accessToken, access_token.val) ELSE r1
        r3 == IF user_id.some THEN replace(r2, P_userId, user_id.val) ELSE r2
    IN  r3

\* Script texts and values a caller may pass.
SubstScripts ==
    { <<"{","{","a","p","i","K","e","y","}","}">>,
      <<"a","{","{","b","a","s","e","U","r","l","}","}","b","{","{","a","p","i","K","e","y","}","}">>,
      <<"{","{","a","c","c","e","s","s","T","o","k","e","n","}","}","{","{","u","s","e","r","I","d","}","}">>,
      <<"{","{","a","p","i","{","{","b","a","s","e","U","r","l","}","}","K","e","y","}","}">>,
      <<"x">>,
      <<"{","{","{","a","p","i","K","e","y","}","}","}">> }
SubstApiKeys == { <<"k">>, <<>>, P_baseUrl }
SubstBaseUrls == { <<"u">>, P_apiKey, P_userId }
SubstAccessTokens == { None, Some(<<"t">>), Some(P_userId) }
SubstUserIds == { None, Some(<<"i">>), Some(P_accessToken) }

NoOutput == [done |-> FALSE, val |-> <<>>]
Output(v) == [done |-> TRUE, val |-> v]

\* The substitution step applied to one input.
ApplySubstitution ==
    /\ ~fnOut.done
    /\ fnOut' = Output(SubstituteVariables(fnIn.script_code, fnIn.api_key, fnIn.base_url,
                                           fnIn.access_token, fnIn.user_id))
    /\ UNCHANGED fnIn
    /\ UNCHANGED <<envVars, engineVars, ipVars, serverVars, webVars>>

InitSubst ==
    /\ envPolicy = EnvUnset
    /\ envAllowedHosts = EnvUnset
    /\ envRedirects = EnvUnset
    /\ active = {}
    /\ EngineIdle
    /\ TimeoutIdle
    /\ HttpIdle
    /\ IpIdle
    /\ ServerIdle
    /\ fnIn \in [script_code : SubstScripts, api_key : SubstApiKeys, base_url : SubstBaseUrls,
                 access_token : SubstAccessTokens, user_id : SubstUserIds]
    /\ fnOut = NoOutput
    /\ WebIdle

NextSubst == ApplySubstitution

SpecSubst == InitSubst /\ [][NextSubst]_vars

----------------------------------------------------------------------------
(* The result validator applied to one value *)

SchemaKeys == { "isValid", "invalidMessage", "remaining", "unit", "total", "used",
                "planName", "extra" }

\* For each field of the schema: absent, null, a value of the declared type, or
\* a value of another type.
UsageChoices ==
    [ isValid : { "absent", "null", "bool", "string" },
      invalidMessage : { "absent", "null", "string", "number" },
      remaining : { "absent", "null", "number", "string" },
      unit : { "absent", "null", "string", "bool" },
      total : { "absent", "null", "number", "bool" },
      used : { "absent", "null", "number", "object" },
      planName : { "absent", "null", "string", "array" },
      extra : { "absent", "null", "string", "number" } ]

\* The object with the chosen fields and, when asked, one field outside the schema.
UsageObject(f, other) ==
    JObject({ <<key, f[key]>> : key \in { k \in SchemaKeys : f[k] # "absent" } } \cup
            (IF other THEN { <<"resetAt", "number">> } ELSE {}))

\* Values that are no object.
NonObjects == { JScalar("null"), JScalar("number"), JScalar("string"), JArray(<<>>) }

ApplyValidateSingleUsage ==
    /\ ~fnOut.done
    /\ fnOut' = Output(validate_single_usage(fnIn))
    /\ UNCHANGED fnIn
    /\ UNCHANGED <<envVars, engineVars, ipVars, serverVars, webVars>>

InitUsage ==
    /\ envPolicy = EnvUnset
    /\ envAllowedHosts = EnvUnset
    /\ envRedirects = EnvUnset
    /\ active = {}
    /\ EngineIdle
    /\ TimeoutIdle
    /\ HttpIdle
    /\ IpIdle
    /\ ServerIdle
    /\ \/ \E f \in UsageChoices, other \in BOOLEAN : fnIn = UsageObject(f, other)
       \/ fnIn \in NonObjects
    /\ fnOut = NoOutput
    /\ WebIdle

NextUsage == ApplyValidateSingleUsage

SpecUsage == InitUsage /\ [][NextUsage]_vars

MaxArrayLen == 3

\* Elements an array result may hold.
ArrayElements ==
    { GoodUsage, BadUsage, JObject({ <<"isValid", "number">>, <<"used", "null">> }),
      JScalar("string") }

RECURSIVE SeqsUpTo(_, _)
SeqsUpTo(S, n) ==
    IF n = 0 THEN { <<>> }
    ELSE SeqsUpTo(S, n - 1) \cup
         { Append(q, x) : q \in { r \in SeqsUpTo(S, n - 1) : Len(r) = n - 1 }, x \in S }

ResultInputs ==
    { JArray(items) : items \in SeqsUpTo(ArrayElements, MaxArrayLen) } \cup
    ArrayElements \cup
    { JScalar("null"), JScalar("number"), JScalar("bool") }

ApplyValidateResult ==
    /\ ~fnOut.done
    /\ fnOut' = Output(validate_result(fnIn))
    /\ UNCHANGED fnIn
    /\ UNCHANGED <<envVars, engineVars, ipVars, serverVars, webVars>>

InitResult ==
    /\ envPolicy = EnvUnset
    /\ envAllowedHosts = EnvUnset
    /\ envRedirects = EnvUnset
    /\ active = {}
    /\ EngineIdle
    /\ TimeoutIdle
    /\ HttpIdle
    /\ IpIdle
    /\ ServerIdle
    /\ fnIn \in ResultInputs
    /\ fnOut = NoOutput
    /\ WebIdle

NextResult == ApplyValidateResult

SpecResult == InitResult /\ [][NextResult]_vars

----------------------------------------------------------------------------
(* is_disallowed_ip applied to one address *)

\* Octets and segments on and around every boundary the classification reads.
TestOctetA == { 0, 1, 9, 10, 11, 100, 126, 127, 128, 168, 169, 170, 171, 172, 173,
                191, 192, 193, 208, 223, 224, 225, 239, 240, 254, 255 }
TestOctetB == { 0, 1, 15, 16, 17, 24, 31, 32, 48, 167, 168, 169, 253, 254, 255 }
TestOctetC == { 0, 255 }
TestOctetD == { 0, 1, 255 }
\* 0x2001, 0xfbff, 0xfc00, 0xfc01, 0xfdff, 0xfe00, 0xfe7f, 0xfe80, 0xfe81, 0xfebf,
\* 0xfec0, 0xfeff, 0xff00, 0xff02, 0xffff
TestSegment0 == { 0, 1, 8193, 64511, 64512, 64513, 65023, 65024, 65151, 65152, 65153,
                  65215, 65216, 65279, 65280, 65282, 65535 }
TestSegment1 == { 0, 1 }
\* 0xffff (IPv4-mapped), 0x7f00, 0x0a00
TestSegment5 == { 0, 65535 }
TestSegment6 == { 0, 32512, 2560 }
TestSegment7 == { 0, 1, 2 }

TestIps ==
    { V4(a, b, c, d) : a \in TestOctetA, b \in TestOctetB, c \in TestOctetC,
                       d \in TestOctetD } \cup
    { V6(a, b, 0, 0, 0, f, g, h) : a \in TestSegment0, b \in TestSegment1,
                                   f \in TestSegment5, g \in TestSegment6,
                                   h \in TestSegment7 }

Classify ==
    /\ ipVerdict = "unchecked"
    /\ ipVerdict' = IF is_disallowed_ip(ipArg, policyArg) THEN "disallowed" ELSE "allowed"
    /\ UNCHANGED <<ipArg, policyArg>>
    /\ UNCHANGED <<envVars, engineVars, serverVars, fnVars, webVars>>

InitIp ==
    /\ envPolicy = EnvUnset
    /\ envAllowedHosts = EnvUnset
    /\ envRedirects = EnvUnset
    /\ active = {}
    /\ EngineIdle
    /\ TimeoutIdle
    /\ HttpIdle
    /\ ServerIdle
    /\ FnIdle
    /\ WebIdle
    /\ ipArg \in TestIps
    /\ policyArg \in { "Strict", "Trusted" }
    /\ ipVerdict = "unchecked"

NextIp == Classify

SpecIp == InitIp /\ [][NextIp]_vars

----------------------------------------------------------------------------
(* Server entry points: main of src/bin/server.rs and of examples/server.rs *)

S_0000 == <<"0",".","0",".","0",".","0">>
S_lan4 == <<"1","9","2",".","1","6","8",".","1",".","1","0">>
S_any6 == <<"[",":",":","]">>
S_localhost == <<"l","o","c","a","l","h","o","s","t">>
S_blank == <<" ">>
S_TRUSTED == <<"T","R","U","S","T","E","D">>
S_strct == <<"s","t","r","c","t">>

Lan4 == V4(192, 168, 1, 10)
Any4 == V4(0, 0, 0, 0)
Any6 == V6(0, 0, 0, 0, 0, 0, 0, 0)

ServerHostEnvs ==
    { EnvUnset, EnvSet(S_loop4), EnvSet(S_0000), EnvSet(S_lan4), EnvSet(S_pub4),
      EnvSet(S_loop6), EnvSet(S_any6), EnvSet(S_localhost) }
ServerPolicyEnvs ==
    { EnvUnset, EnvSet(<<>>), EnvSet(S_blank), EnvSet(S_strict), EnvSet(S_Strict_sp),
      EnvSet(S_trusted), EnvSet(S_TRUSTED), EnvSet(S_strct) }
ServerInsecureEnvs == { EnvUnset, EnvSet(S_1), EnvSet(S_0) }

\* format!("{host}:{port}").parse::<SocketAddr>(), for the HOST values above:
\* the address, or a parse failure (a host name is no socket address).
ParseSocketAddr(host) ==
    CASE host = S_loop4 -> [ok |-> TRUE, ip |-> Loop4]
      [] host = S_0000 -> [ok |-> TRUE, ip |-> Any4]
      [] host = S_lan4 -> [ok |-> TRUE, ip |-> Lan4]
      [] host = S_pub4 -> [ok |-> TRUE, ip |-> Pub4]
      [] host = S_loop6 -> [ok |-> TRUE, ip |-> Loop6]
      [] host = S_any6 -> [ok |-> TRUE, ip |-> Any6]
      [] OTHER -> [ok |-> FALSE, ip |-> Loop4]

ip_is_loopback(ip) == IF ip.v = 4 THEN ipv4_is_loopback(ip) ELSE ipv6_is_loopback(ip)
ip_is_unspecified(ip) ==
    IF ip.v = 4 THEN ipv4_is_unspecified(ip) ELSE ipv6_is_unspecified(ip)
is_public_bind(ip) == ip_is_unspecified(ip) \/ ~ip_is_loopback(ip)

\* HOST defaults to 127.0.0.1; an invalid HOST falls back to 127.0.0.1.
MainParseAddr ==
    /\ mainPc = "start"
    /\ LET host == IF envHost.set THEN envHost.val ELSE S_loop4
           addr == ParseSocketAddr(host)
       IN  bindIp' = IF addr.ok THEN addr.ip ELSE Loop4
    /\ mainPc' = IF entry = "example" THEN "select_egress" ELSE "bind"
    /\ UNCHANGED <<entry, envHost, envAllowInsecure, servedPolicy>>
    /\ UNCHANGED <<envVars, engineVars, ipVars, fnVars, webVars>>

\* examples/server.rs lines 210-225
MainSelectEgress ==
    /\ mainPc = "select_egress"
    /\ LET should_set_egress == IF envPolicy.set THEN trim(envPolicy.val) = <<>> ELSE TRUE
       IN  envPolicy' = IF is_public_bind(bindIp) /\ should_set_egress
                        THEN EnvSet(S_strict) ELSE envPolicy
    /\ mainPc' = "check_insecure"
    /\ UNCHANGED <<envAllowedHosts, envRedirects, limitEnvVars>>
    /\ UNCHANGED <<entry, envHost, envAllowInsecure, bindIp, servedPolicy>>
    /\ UNCHANGED <<engineVars, ipVars, fnVars, webVars>>

\* examples/server.rs lines 251-267
MainCheckInsecure ==
    /\ mainPc = "check_insecure"
    /\ mainPc' = IF is_public_bind(bindIp) /\ ~env_flag(envAllowInsecure)
                 THEN "refused" ELSE "bind"
    /\ UNCHANGED <<entry, envHost, envAllowInsecure, bindIp, servedPolicy>>
    /\ UNCHANGED <<envVars, engineVars, ipVars, fnVars, webVars>>

\* TcpListener::bind and serve (bin lines 173-176, example lines 279-282)
MainBind ==
    /\ mainPc = "bind"
    /\ \E bound \in BOOLEAN : mainPc' = IF bound THEN "serving" ELSE "exited"
    /\ UNCHANGED <<entry, envHost, envAllowInsecure, bindIp, servedPolicy>>
    /\ UNCHANGED <<envVars, engineVars, ipVars, fnVars, webVars>>

\* While serving, a usage query validates its URL (usage_script.rs line 481).
ServeUsageQuery ==
    /\ mainPc = "serving"
    /\ servedPolicy' = parse_egress_policy(envPolicy)
    /\ UNCHANGED <<entry, envHost, envAllowInsecure, mainPc, bindIp>>
    /\ UNCHANGED <<envVars, engineVars, ipVars, fnVars, webVars>>

InitServer ==
    /\ envPolicy \in ServerPolicyEnvs
    /\ envAllowedHosts = EnvUnset
    /\ envRedirects = EnvUnset
    /\ active = {}
    /\ EngineIdle
    /\ TimeoutIdle
    /\ HttpIdle
    /\ IpIdle
    /\ FnIdle
    /\ WebIdle
    /\ entry \in { "bin", "example" }
    /\ envHost \in ServerHostEnvs
    /\ envAllowInsecure \in ServerInsecureEnvs
    /\ mainPc = "start"
    /\ bindIp = Loop4
    /\ servedPolicy = "none"

NextServer ==
    \/ MainParseAddr
    \/ MainSelectEgress
    \/ MainCheckInsecure
    \/ MainBind
    \/ ServeUsageQuery

SpecServer == InitServer /\ [][NextServer]_vars

----------------------------------------------------------------------------
(* The web router serving requests *)

WebStarted ==
    /\ webReq = [r \in WebRequests |-> NoWebRequest]
    /\ webPc = [r \in WebRequests |-> "none"]
    /\ webResp = [r \in WebRequests |-> NoWebResponse]
    /\ webHandled = [r \in WebRequests |-> FALSE]
    /\ rlWindowStart = 0
    /\ rlCount = 0
    /\ rlHolder = NoHolder
    /\ rlForwarded = 0

NotWeb ==
    /\ envPolicy = EnvUnset
    /\ envAllowedHosts = EnvUnset
    /\ envRedirects = EnvUnset
    /\ HttpIdle
    /\ active = {}
    /\ EngineIdle
    /\ TimeoutIdle
    /\ IpIdle
    /\ ServerIdle
    /\ FnIdle

\* One request of any shape, with and without a rate limiter.
InitWeb ==
    /\ webPassword \in { S_pw, S_p_w }
    /\ envEnableHsts \in { EnvUnset, EnvSet(S_0), EnvSet(S_1) }
    /\ \/ envRateLimitNum = EnvUnset /\ envRateLimitWindow = EnvSet(S_1)
       \/ envRateLimitNum = EnvSet(S_1) /\ envRateLimitWindow = EnvSet(S_1)
    /\ webActive = {1}
    /\ WebStarted
    /\ NotWeb

SpecWeb == InitWeb /\ [][NextWeb]_vars

\* Several requests at once under a rate limiter.
InitRateLimit ==
    /\ webPassword = S_pw
    /\ envEnableHsts \in { EnvUnset, EnvSet(S_True) }
    /\ envRateLimitNum \in { EnvSet(S_1), EnvSet(S_2) }
    /\ envRateLimitWindow = EnvSet(S_1)
    /\ webActive = WebRequests
    /\ WebStarted
    /\ NotWeb

SpecRateLimit == InitRateLimit /\ [][NextWeb]_vars

----------------------------------------------------------------------------
(* Properties *)

InPhaseBlock(i) == pc[i] \in Phase1Pcs \cup Phase2Pcs

\* C1: an invocation owns at most one live interpreter session (Runtime and
\* Context) at any point, and none outside its two phase blocks: not during
\* the network step, and not at return, on the success and on every error path.
C1_SessionsConfinedToBlocks ==
    \A i \in Invocations :
        /\ runtimes[i] <= 1
        /\ contexts[i] <= 1
        /\ ~InPhaseBlock(i) => runtimes[i] = 0 /\ contexts[i] = 0

\* C1 witness: an invocation returned Ok after both phases, holding no session.
C1_Witness ==
    \E i \in Invocations :
        /\ pc[i] = "done" /\ result[i] = "ok"
        /\ runtimes[i] = 0 /\ contexts[i] = 0

StepOrder == <<"substitution", "phase1", "parse", "http", "phase2", "validate">>

Entered(i, step) == \E k \in 1..Len(steps[i]) : steps[i][k] = step

\* The error kinds of each orchestrator step.
StepErrors(step) ==
    CASE step = "phase1" ->
            { "usage_script.runtime_create_failed", "usage_script.context_create_failed",
              "usage_script.config_parse_failed", "usage_script.request_missing",
              "usage_script.request_serialize_failed", "usage_script.serialize_none",
              "usage_script.get_string_failed" }
      [] step = "parse" -> { "usage_script.request_format_invalid" }
      [] step = "http" ->
            { "usage_script.url_invalid", "usage_script.url_scheme_not_allowed",
              "usage_script.url_userinfo_not_allowed", "usage_script.url_host_missing",
              "usage_script.url_host_not_allowed", "usage_script.url_blocked",
              "usage_script.dns_lookup_failed", "usage_script.request_body_too_large",
              "usage_script.header_count_exceeded", "usage_script.forbidden_header",
              "usage_script.client_create_failed", "usage_script.invalid_http_method",
              "usage_script.request_failed", "usage_script.read_response_failed",
              "usage_script.response_too_large", "usage_script.http_error" }
      [] step = "phase2" ->
            { "usage_script.runtime_create_failed", "usage_script.context_create_failed",
              "usage_script.config_reparse_failed", "usage_script.extractor_missing",
              "usage_script.response_parse_failed", "usage_script.extractor_exec_failed",
              "usage_script.result_serialize_failed", "usage_script.serialize_none",
              "usage_script.get_string_failed", "usage_script.json_parse_failed" }
      [] step = "validate" ->
            { "usage_script.empty_array", "usage_script.array_validation_failed",
              "usage_script.must_return_object", "usage_script.isvalid_type_error",
              "usage_script.invalidmessage_type_error",
              "usage_script.remaining_type_error", "usage_script.unit_type_error",
              "usage_script.total_type_error", "usage_script.used_type_error",
              "usage_script.planname_type_error", "usage_script.extra_type_error" }
      [] OTHER -> {}

\* What it means for the request validation and the HTTP call to have succeeded.
HttpStepSucceeded(i) ==
    LET r == ValidateUrlSync(request[i].url, envAllowedHosts, envPolicy)
    IN  /\ r.err = "none"
        /\ r.lookup => ValidateResolved(dnsAnswer[i], r.policy) = "none"
        /\ PreSendKind(i) = "none"
        /\ contacted[i] # <<>>
        /\ is_success(response[i])

\* C2: the steps run in the order substitution, phase 1, request-config parse,
\* request validation and HTTP call, phase 2, result validation; a step is
\* entered only when every earlier step succeeded; an invocation that fails
\* returns the error of the last step it entered and has done nothing of a
\* later step; Ok is returned only when all six steps succeeded.
C2_StepsInOrderFirstFailureEnds ==
    \A i \in Invocations :
        /\ Len(steps[i]) <= Len(StepOrder)
        /\ steps[i] = SubSeq(StepOrder, 1, Len(steps[i]))
        /\ pc[i] # "done" => result[i] = "none"
        /\ Entered(i, "http") => request[i].wellformed
        /\ ~Entered(i, "http") =>
              validations[i] = 0 /\ dnsLookups[i] = 0 /\ contacted[i] = <<>>
        /\ Entered(i, "phase2") => HttpStepSucceeded(i)
        /\ ~Entered(i, "phase2") => value[i] = NoValue
        /\ pc[i] = "done" /\ result[i] # "ok" =>
              /\ steps[i] # <<>>
              /\ result[i] \in StepErrors(steps[i][Len(steps[i])])
        /\ result[i] = "ok" =>
              /\ pc[i] = "done"
              /\ steps[i] = StepOrder
              /\ request[i].wellformed
              /\ HttpStepSucceeded(i)
              /\ validate_result(parsed[i]).kind = "none"

\* C2 witness: an invocation failed in the HTTP step after phase 1 and the
\* request-config parse succeeded, and phase 2 was not entered.
C2_Witness ==
    \E i \in Invocations :
        /\ pc[i] = "done"
        /\ result[i] = "usage_script.http_error"
        /\ steps[i] = SubSeq(StepOrder, 1, 4)

NoNetworkUse(i) ==
    validations[i] = 0 /\ dnsLookups[i] = 0 /\ contacted[i] = <<>>

\* C3: when the substituted script fails to evaluate in phase 1 (a script that
\* is syntactically invalid always does), the invocation returns
\* usage_script.config_parse_failed (or, before evaluation starts, the setup
\* error of the session), issues no DNS lookup and no HTTP request, and phase 2
\* never starts.
C3_EvalFailureEndsBeforeNetwork ==
    \A i \in Invocations :
        /\ result[i] = "usage_script.config_parse_failed" =>
              /\ pc[i] = "done"
              /\ NoNetworkUse(i)
              /\ ~Entered(i, "phase2")
              /\ steps[i] = <<"substitution", "phase1">>
        /\ script[i] = "syntax_error" =>
              /\ NoNetworkUse(i)
              /\ ~Entered(i, "parse")
              /\ pc[i] \in { "p1_runtime", "p1_context", "p1_eval", "done" }
              /\ pc[i] = "done" =>
                    result[i] \in { "usage_script.runtime_create_failed",
                                    "usage_script.context_create_failed",
                                    "usage_script.config_parse_failed" }

\* C3 witness: a syntactically invalid script ended with the evaluation error.
C3_Witness ==
    \E i \in Invocations :
        /\ script[i] = "syntax_error"
        /\ pc[i] = "done"
        /\ result[i] = "usage_script.config_parse_failed"


\* The first 16 bits of an address, and membership of a prefix of at most 16 bits.
High16(ip) == IF ip.v = 4 THEN ip.o[1] * 256 + ip.o[2] ELSE ip.o[1]
InPrefix(ip, base16, len) ==
    High16(ip) \div (2 ^ (16 - len)) = base16 \div (2 ^ (16 - len))

\* 169.254.0.0/16, 0.0.0.0, 224.0.0.0/4, 255.255.255.255; fe80::/10, ::, ff00::/8
TableAlwaysDisallowed(ip) ==
    IF ip.v = 4
    THEN \/ InPrefix(ip, 169 * 256 + 254, 16)
         \/ ip = V4(0, 0, 0, 0)
         \/ InPrefix(ip, 224 * 256, 4)
         \/ ip = V4(255, 255, 255, 255)
    ELSE \/ InPrefix(ip, 65152, 10)
         \/ ip = V6(0, 0, 0, 0, 0, 0, 0, 0)
         \/ InPrefix(ip, 65280, 8)

\* 127.0.0.0/8, 10.0.0.0/8, 172.16.0.0/12, 192.168.0.0/16; ::1, fc00::/7
TableStrictOnly(ip) ==
    IF ip.v = 4
    THEN \/ InPrefix(ip, 127 * 256, 8)
         \/ InPrefix(ip, 10 * 256, 8)
         \/ InPrefix(ip, 172 * 256 + 16, 12)
         \/ InPrefix(ip, 192 * 256 + 168, 16)
    ELSE \/ ip = V6(0, 0, 0, 0, 0, 0, 0, 1)
         \/ InPrefix(ip, 64512, 7)

TableVerdict(ip, policy) ==
    IF TableAlwaysDisallowed(ip) THEN "disallowed"
    ELSE IF TableStrictOnly(ip)
    THEN (IF policy = "Strict" THEN "disallowed" ELSE "allowed")
    ELSE "allowed"

\* C4: for every address and both policies is_disallowed_ip agrees with the
\* reference table: link-local, unspecified, multicast and IPv4 broadcast are
\* disallowed under both policies; loopback, RFC 1918 private and fc00::/7 are
\* disallowed under Strict and allowed under Trusted; every other address is
\* allowed under both.
C4_DisallowedIpMatchesTable ==
    ipVerdict # "unchecked" => ipVerdict = TableVerdict(ipArg, policyArg)

\* C4 witness: the last address of 172.16.0.0/12 was classified under Strict.
C4_Witness ==
    /\ ipArg = V4(172, 31, 255, 255)
    /\ policyArg = "Strict"
    /\ ipVerdict = "disallowed"

DnsReturned(i) == dnsLookups[i] > 0 /\ pc[i] # "dns_wait"

\* C5: for a domain host, validation passes only if the lookup returned at
\* least one address and every address is allowed under the active policy; one
\* disallowed address among the results gives usage_script.url_blocked, a lookup
\* error or an empty result gives usage_script.dns_lookup_failed, and in both
\* cases no HTTP request is sent.
C5_DomainPassesOnlyIfAllResolvedAllowed ==
    \A i \in Invocations :
        LET answer == dnsAnswer[i]
            policy == parse_egress_policy(envPolicy)
            failed == ~answer.ok \/ answer.ips = {}
            blocked == \E ip \in answer.ips : is_disallowed_ip(ip, policy)
        IN  DnsReturned(i) =>
              /\ request[i].url.host.kind = "domain"
              /\ failed => /\ result[i] = "usage_script.dns_lookup_failed"
                           /\ contacted[i] = <<>>
              /\ ~failed /\ blocked => /\ result[i] = "usage_script.url_blocked"
                                       /\ contacted[i] = <<>>
              /\ contacted[i] # <<>> => ~failed /\ ~blocked

\* C5 witness: a lookup returned an allowed and a disallowed address and the
\* invocation ended with usage_script.url_blocked.
C5_Witness ==
    \E i \in Invocations :
        /\ DnsReturned(i)
        /\ result[i] = "usage_script.url_blocked"
        /\ \E ip \in dnsAnswer[i].ips :
              ~is_disallowed_ip(ip, parse_egress_policy(envPolicy))
        /\ \E ip \in dnsAnswer[i].ips :
              is_disallowed_ip(ip, parse_egress_policy(envPolicy))

\* C6: a request URL whose scheme is not http or https, or that carries a
\* username or a password, is rejected by validate_request_url whatever its
\* host, the allowlist and the egress policy, before any DNS lookup is issued.
C6_SchemeAndUserinfoRejectedBeforeDns ==
    \A i \in Invocations :
        LET url == request[i].url
            badScheme == url.scheme \notin { "http", "https" }
            userinfo == url.username # <<>> \/ url.password
        IN  validations[i] > 0 /\ url.parses /\ (badScheme \/ userinfo) =>
              /\ pc[i] = "done"
              /\ result[i] = IF badScheme THEN "usage_script.url_scheme_not_allowed"
                             ELSE "usage_script.url_userinfo_not_allowed"
              /\ dnsLookups[i] = 0
              /\ contacted[i] = <<>>

\* C6 witness: a URL with a user name and an allowlisted loopback host was
\* rejected for its userinfo under the Trusted policy.
C6_Witness ==
    \E i \in Invocations :
        /\ result[i] = "usage_script.url_userinfo_not_allowed"
        /\ request[i].url.password = FALSE
        /\ request[i].url.host.kind = "ip"
        /\ envAllowedHosts.set
        /\ parse_egress_policy(envPolicy) = "Trusted"
        /\ dnsLookups[i] = 0

\* The policy the setting selects according to the claim: Trusted when unset
\* (a blank value is read here as unset, in the claim's favour), Trusted for an
\* explicit trusted, Strict for every other value.
ClaimedPolicy(env) ==
    IF ~env.set \/ trim(env.val) = <<>> THEN "Trusted"
    ELSE IF to_ascii_lowercase(trim(env.val)) = S_trusted THEN "Trusted"
    ELSE "Strict"

\* C7: the active egress policy is Trusted when USAGE_SCRIPT_EGRESS_POLICY is
\* unset, and Strict for every set value other than an explicit trusted.
C7_UnrecognisedValueSelectsStrict ==
    servedPolicy # "none" => servedPolicy = ClaimedPolicy(envPolicy)

\* C8: whenever a server entry point has bound the web service to a
\* non-loopback or unspecified address and serves requests, usage-script URL
\* validation runs under the Strict policy.
C8_PublicBindServesStrict ==
    mainPc = "serving" /\ is_public_bind(bindIp) /\ servedPolicy # "none" =>
        servedPolicy = "Strict"

TruthyFlagValues == { S_1, S_true, <<"T","R","U","E">>, <<"y","e","s">>, <<"o","n">> }
RedirectsEnabled == envRedirects.set /\ envRedirects.val \in TruthyFlagValues

RequestSent(i) == pc[i] \in { "send_wait", "read_body" } \/ Entered(i, "phase2")

\* C9: with the allow-redirects flag unset or not truthy an invocation issues
\* exactly one HTTP request and follows no redirect, a 3xx response being
\* handled as a non-2xx response; with the flag enabled at most 5 redirect
\* hops are followed.
C9_RedirectsOffByDefaultCappedAtFive ==
    \A i \in Invocations :
        /\ ~RedirectsEnabled =>
              /\ Len(contacted[i]) <= 1
              /\ RequestSent(i) => Len(contacted[i]) = 1
              /\ response[i] = 302 =>
                    /\ ~Entered(i, "phase2")
                    /\ pc[i] = "done" =>
                          result[i] \in { "usage_script.http_error",
                                          "usage_script.read_response_failed",
                                          "usage_script.response_too_large" }
        /\ RedirectsEnabled => Len(contacted[i]) <= 1 + 5

\* C9 witness: with the flag enabled, five redirect hops were followed.
C9_Witness ==
    \E i \in Invocations : RedirectsEnabled /\ Len(contacted[i]) = 6

\* C10: with redirects enabled only the initial URL passes through
\* validate_request_url: every redirect target the client receives within the
\* hop limit is contacted, whatever its address, with no further validation
\* and no further lookup by the validator.
C10_RedirectTargetsNotRevalidated ==
    \A i \in Invocations :
        /\ validations[i] <= 1
        /\ dnsLookups[i] <= 1
        /\ contacted[i] # <<>> =>
              /\ validations[i] = 1
              /\ contacted[i] = <<request[i].url>> \o served[i]

\* C10 witness: under Strict a permitted initial URL was redirected to a
\* loopback address, and a request was sent to that address.
C10_Witness ==
    \E i \in Invocations :
        /\ parse_egress_policy(envPolicy) = "Strict"
        /\ RedirectsEnabled
        /\ Len(contacted[i]) >= 2
        /\ contacted[i][1] = UrlPublicDomain
        /\ \E k \in 2..Len(contacted[i]) :
              /\ contacted[i][k].host.kind = "ip"
              /\ is_disallowed_ip(contacted[i][k].host.ip, "Strict")
        /\ validations[i] = 1

----------------------------------------------------------------------------
(* The response body and the checks before sending *)

MaxResponseBytes == parse_env_usize(envMaxResponseBytes, DefaultMaxResponseBytes)
MaxBodyBytes == parse_env_usize(envMaxBodyBytes, DefaultMaxBodyBytes)
MaxHeaderCount == parse_env_usize(envMaxHeaderCount, DefaultMaxHeaderCount)

\* C11: while the body is read chunk by chunk the bytes buffered never exceed
\* the configured maximum; the invocation ends with
\* usage_script.response_too_large exactly when the bytes counted exceed it,
\* without reading on and without starting phase 2; phase 2 starts only with
\* the whole body buffered, and a body of at most the maximum is never refused.
C11_OversizedBodyEndsBeforePhase2 ==
    \A i \in Invocations :
        /\ BufLen(buf[i]) <= MaxResponseBytes
        /\ total[i] > MaxResponseBytes <=> result[i] = "usage_script.response_too_large"
        /\ result[i] = "usage_script.response_too_large" =>
              /\ pc[i] = "done"
              /\ ~Entered(i, "phase2")
              /\ value[i] = NoValue
              /\ BufLen(serverBody) > MaxResponseBytes
        /\ Entered(i, "phase2") =>
              /\ buf[i] = serverBody
              /\ total[i] = BufLen(serverBody)

\* C11 witness: the total exceeded the maximum in a later chunk, with earlier
\* chunks already buffered.
C11_Witness ==
    \E i \in Invocations :
        /\ result[i] = "usage_script.response_too_large"
        /\ buf[i] # <<>>
        /\ stream[i] = <<>>

\* C11 witness: a body of exactly the maximum size reached phase 2.
C11_WitnessExactlyMax ==
    \E i \in Invocations :
        /\ Entered(i, "phase2")
        /\ BufLen(buf[i]) = MaxResponseBytes

ResponseReceived(i) == response[i] # NoResponse

\* C12: every response whose status is not 2xx ends the invocation with
\* usage_script.http_error carrying that status, whatever the body is, and
\* phase 2 is not run.  (Stated for the responses whose body was read to its
\* end: a stream error or a body above the maximum is left aside.)
C12_Non2xxIsHttpError ==
    \A i \in Invocations :
        ( /\ ResponseReceived(i)
          /\ ~is_success(response[i])
          /\ pc[i] = "done"
          /\ result[i] \notin { "usage_script.read_response_failed",
                                "usage_script.response_too_large" } ) =>
            /\ result[i] = "usage_script.http_error"
            /\ message[i].status = response[i]
            /\ ~Entered(i, "phase2")

IncludeBodyEnabled == envIncludeBody.set /\ envIncludeBody.val \in TruthyFlagValues

\* C13: the message of usage_script.http_error holds text of the response body
\* only when the include-error-body flag is enabled, and then at most 200
\* characters of it (followed by "..." when the body was cut); with the flag
\* off it holds the fixed placeholder and no text of the body.
C13_BodyPreviewOnlyWithFlagAndBounded ==
    \A i \in Invocations :
        result[i] = "usage_script.http_error" =>
            /\ message[i].omitted <=> ~IncludeBodyEnabled
            /\ message[i].omitted => message[i].body_chars = 0 /\ message[i].body_bytes = 0
            /\ message[i].body_chars <= PreviewLimit
            /\ message[i].body_bytes <= PreviewLimit
            /\ message[i].ellipsis => message[i].body_bytes = PreviewLimit

\* C13 witness: with the flag enabled a body longer than 200 bytes was cut to
\* a preview of 200.
C13_Witness ==
    \E i \in Invocations :
        /\ result[i] = "usage_script.http_error"
        /\ IncludeBodyEnabled
        /\ message[i].ellipsis
        /\ message[i].body_chars = PreviewLimit

HeaderNormalized(name) == to_ascii_lowercase(trim(name))

\* C14: a request is sent only if its body is at most the maximum body bytes,
\* its header count at most the maximum header count, none of its header
\* names is forbidden after trimming and lower-casing, and its method is an
\* HTTP token; a body or a header count is refused for its size only when it
\* is above the limit.
C14_RequestSentOnlyAfterPreSendChecks ==
    \A i \in Invocations :
        /\ contacted[i] # <<>> =>
              /\ request[i].body_len <= MaxBodyBytes
              /\ Len(request[i].headers) <= MaxHeaderCount
              /\ \A k \in 1..Len(request[i].headers) :
                    HeaderNormalized(request[i].headers[k]) \notin ForbiddenHeaderNames
              /\ MethodParses(request[i].method)
        /\ result[i] = "usage_script.request_body_too_large" =>
              request[i].body_len > MaxBodyBytes
        /\ result[i] = "usage_script.header_count_exceeded" =>
              Len(request[i].headers) > MaxHeaderCount
        /\ result[i] = "usage_script.invalid_http_method" =>
              ~MethodParses(request[i].method) /\ contacted[i] = <<>>

\* C14 witness: a request whose body and header count are exactly at the
\* configured limits was sent.
C14_Witness ==
    \E i \in Invocations :
        /\ contacted[i] # <<>>
        /\ envMaxBodyBytes.set /\ envMaxHeaderCount.set
        /\ request[i].body_len = MaxBodyBytes
        /\ Len(request[i].headers) = MaxHeaderCount

----------------------------------------------------------------------------
(* Variable substitution *)

SubstPairs(in) ==
    { <<P_apiKey, in.api_key>>, <<P_baseUrl, in.base_url>> } \cup
    (IF in.access_token.some THEN { <<P_accessToken, in.access_token.val>> } ELSE {}) \cup
    (IF in.user_id.some THEN { <<P_userId, in.user_id.val>> } ELSE {})

StartsWith(s, prefix) == Len(s) >= Len(prefix) /\ SubSeq(s, 1, Len(prefix)) = prefix

\* One pass over the original text: at each position a placeholder that has a
\* value is replaced by it and the scan goes on after the placeholder.
RECURSIVE SinglePass(_, _)
SinglePass(s, pairs) ==
    IF s = <<>> THEN <<>>
    ELSE IF \E pr \in pairs : StartsWith(s, pr[1])
    THEN LET pr == CHOOSE q \in pairs : StartsWith(s, q[1])
         IN  pr[2] \o SinglePass(SubSeq(s, Len(pr[1]) + 1, Len(s)), pairs)
    ELSE <<Head(s)>> \o SinglePass(Tail(s), pairs)

\* C15: the substituted script is the single-pass, simultaneous replacement of
\* the four placeholders in the original text: text brought in by a value is
\* not substituted again, and the placeholder of an absent optional value stays.
C15_SubstitutionIsSinglePass ==
    fnOut.done => fnOut.val = SinglePass(fnIn.script_code, SubstPairs(fnIn))

----------------------------------------------------------------------------
(* Interpreter sessions *)

ExhaustingScript(i) == script[i] \in { "exhausts_memory", "never_returns" }

Phase1Errors == StepErrors("phase1")

\* Code of its own phase 2 ran until the interrupt check stopped it.
StoppedInPhase2(i) ==
    /\ heap[i].ceiling = "time"
    /\ heap[i].users = {i}
    /\ pc[i] = "done"
    /\ result[i] \in { "usage_script.config_reparse_failed",
                      "usage_script.extractor_exec_failed" }

\* C16: whatever the interleaving of the invocations, a session is evaluated in
\* by the one invocation that created it, only the session of an invocation
\* whose own script exhausts memory or time hits a ceiling, an invocation whose
\* script does so when it is evaluated fails in phase 1 without touching the
\* network, and an invocation returns Ok only on its own request, responses and
\* result.
C16_InvocationsShareNoSession ==
    \A i \in Invocations :
        /\ heap[i].users \subseteq {i}
        /\ heap[i].ceiling # "none" => ExhaustingScript(i) \/ StoppedInPhase2(i)
        /\ (ExhaustingScript(i) /\ pc[i] = "done") =>
              /\ result[i] \in Phase1Errors
              /\ NoNetworkUse(i)
        /\ result[i] = "ok" =>
              /\ script[i] = "valid"
              /\ HttpStepSucceeded(i)
              /\ validate_result(parsed[i]).kind = "none"

\* C16 witness: one invocation ran into the memory limit of its session and
\* failed, the other one, started alongside, returned Ok.
C16_Witness ==
    \E i, j \in Invocations :
        /\ i # j
        /\ active = Invocations
        /\ script[i] = "exhausts_memory"
        /\ heap[i].ceiling = "memory"
        /\ result[i] = "usage_script.config_parse_failed"
        /\ heap[j].users = {j}
        /\ result[j] = "ok"

EvaluatedInPhase(i, n) == \E k \in 1..Len(observed[i]) : observed[i][k].phase = n

\* C17: phase 2 evaluates the text phase 1 evaluated, in a Context whose global
\* object holds nothing of phase 1: neither the script when it is evaluated
\* again nor the extractor finds a definition phase 1 left.
C17_Phase2StartsFromFreshInterpreter ==
    \A i \in Invocations :
        /\ Len(observed[i]) <= 2
        /\ \A k \in 1..Len(observed[i]) :
              /\ observed[i][k].phase = k
              /\ observed[i][k].text = observed[i][1].text
              /\ observed[i][k].found = {}
        /\ (pc[i] \in Phase2Pcs /\ ContextInScope(pc[i])) => 1 \notin globals[i]

\* C17 witness: phase 1 left definitions in its global object, and the script
\* was evaluated again in phase 2.
C17_Witness ==
    \E i \in Invocations :
        /\ EvaluatedInPhase(i, 1)
        /\ EvaluatedInPhase(i, 2)
        /\ pc[i] = "p2_call"
        /\ globals[i] = {2}

----------------------------------------------------------------------------
(* Result validation *)

SchemaOrder == <<"isValid", "invalidMessage", "remaining", "unit", "total", "used",
                 "planName", "extra">>

DeclaredType(key) ==
    CASE key = "isValid" -> "bool"
      [] key \in { "remaining", "total", "used" } -> "number"
      [] OTHER -> "string"

TypeErrorOf(key) ==
    CASE key = "isValid" -> "usage_script.isvalid_type_error"
      [] key = "invalidMessage" -> "usage_script.invalidmessage_type_error"
      [] key = "remaining" -> "usage_script.remaining_type_error"
      [] key = "unit" -> "usage_script.unit_type_error"
      [] key = "total" -> "usage_script.total_type_error"
      [] key = "used" -> "usage_script.used_type_error"
      [] key = "planName" -> "usage_script.planname_type_error"
      [] OTHER -> "usage_script.extra_type_error"

\* The field is present with a value that is neither null nor of its declared type.
Offending(obj, key) ==
    \E f \in obj.fields : f[1] = key /\ f[2] \notin { "null", DeclaredType(key) }

OffendingPositions(obj) == { k \in 1..Len(SchemaOrder) : Offending(obj, SchemaOrder[k]) }

Least(S) == CHOOSE k \in S : \A m \in S : k <= m

\* What the schema says of one value.
ExpectedSingle(v) ==
    IF v.t # "object" THEN "usage_script.must_return_object"
    ELSE IF OffendingPositions(v) = {} THEN "none"
    ELSE TypeErrorOf(SchemaOrder[Least(OffendingPositions(v))])

\* C18: validate_single_usage accepts an object exactly when each field of the
\* schema is absent, null or of its declared type, whatever other fields the
\* object has, and otherwise returns the error of the first offending field in
\* the order isValid, invalidMessage, remaining, unit, total, used, planName,
\* extra.
C18_SingleUsageTypeCheck ==
    fnOut.done => fnOut.val = ExpectedSingle(fnIn)

\* C18 witness: an object with a field outside the schema and two offending
\* fields was rejected with the error of the earlier one.
C18_Witness ==
    /\ fnOut.done
    /\ fnIn.t = "object"
    /\ <<"resetAt", "number">> \in fnIn.fields
    /\ Offending(fnIn, "remaining")
    /\ Offending(fnIn, "unit")
    /\ ~Offending(fnIn, "isValid") /\ ~Offending(fnIn, "invalidMessage")
    /\ fnOut.val = "usage_script.remaining_type_error"

FailingIndexes(items) == { k \in 1..Len(items) : ExpectedSingle(items[k]) # "none" }

\* C19: validate_result rejects an empty array with the empty-array error,
\* accepts a non-empty array exactly when every element passes the check of a
\* single object, and otherwise reports the failure of the element with the
\* smallest failing index, tagged with that index; a value that is neither an
\* array nor an object is rejected as not an object.
C19_ArrayResultValidation ==
    fnOut.done =>
        IF fnIn.t = "array"
        THEN IF fnIn.items = <<>>
             THEN fnOut.val.kind = "usage_script.empty_array"
             ELSE IF FailingIndexes(fnIn.items) = {}
             THEN fnOut.val.kind = "none"
             ELSE /\ fnOut.val.kind = "usage_script.array_validation_failed"
                  /\ fnOut.val.idx = Least(FailingIndexes(fnIn.items)) - 1
                  /\ fnOut.val.inner =
                        ExpectedSingle(fnIn.items[Least(FailingIndexes(fnIn.items))])
        ELSE IF fnIn.t = "object"
        THEN fnOut.val.kind = ExpectedSingle(fnIn)
        ELSE fnOut.val.kind = "usage_script.must_return_object"

\* C19 witness: an array whose first element passes and whose second and third
\* fail was rejected with index 1.
C19_Witness ==
    /\ fnOut.done
    /\ fnIn.t = "array"
    /\ Len(fnIn.items) = 3
    /\ FailingIndexes(fnIn.items) = { 2, 3 }
    /\ fnOut.val.idx = 1

----------------------------------------------------------------------------
(* The value returned *)

\* C20: when every step succeeds the value execute_usage_script returns is the
\* value the extractor returned, as JSON serialisation wrote it: validation
\* adds no field, removes none and changes no type; nothing is returned
\* otherwise.
C20_ReturnedValueIsExtractorValue ==
    \A i \in Invocations :
        /\ result[i] = "ok" =>
              /\ returned[i] = json_stringify(value[i]).json
              /\ returned[i] = parsed[i]
        /\ result[i] # "ok" => returned[i] = NoValue

\* C20 witness: an object with a field outside the schema was returned with
\* that field.
C20_Witness ==
    \E i \in Invocations :
        /\ result[i] = "ok"
        /\ value[i] = ExtendedUsage
        /\ <<"resetAt", "string">> \in returned[i].fields
        /\ returned[i] # value[i]


----------------------------------------------------------------------------
(* C21 *)

Min2(a, b) == IF a <= b THEN a ELSE b
Max2(a, b) == IF a >= b THEN a ELSE b
ClaimedSeconds(t) == Min2(Max2(t, 2), 30)

SessionBuilt(i) == runtimes'[i] > runtimes[i]
RequestIssued(i) == pc[i] # "send_wait" /\ pc'[i] = "send_wait"

\* C21: for every caller timeout t, the deadline of the interpreter session of
\* phase 1 and of phase 2 is min(max(t, 2), 30) seconds after the instant that
\* session is built and stays there while the session lives, and the timeout of
\* the HTTP client is min(max(t, 2), 30) seconds, running from the send.
C21_DeadlinesAreClampedTimeout ==
    [][\A i \in Invocations :
          /\ SessionBuilt(i) =>
                deadline'[i] = now + ClaimedSeconds(timeout_secs[i]) * 1000
          /\ deadline'[i] # deadline[i] => SessionBuilt(i)
          /\ RequestIssued(i) =>
                /\ clientTimeout'[i] = ClaimedSeconds(timeout_secs[i]) * 1000
                /\ httpDeadline'[i] = now + clientTimeout'[i]
          /\ timeout_secs'[i] = timeout_secs[i]]_vars

\* The session of phase 2 is live, time has passed since the invocation
\* started, and the timeout was far above the upper bound.
C21_Witness ==
    \E i \in Invocations :
        /\ pc[i] \in Phase2Pcs
        /\ runtimes[i] > 0
        /\ timeout_secs[i] > 30
        /\ deadline[i] > startedAt[i] + 30000
        /\ clientTimeout[i] = 30000

----------------------------------------------------------------------------
(* C22 *)

ScriptErrors ==
    { "usage_script.config_parse_failed", "usage_script.config_reparse_failed",
      "usage_script.extractor_exec_failed" }

EvaluatingForever(i) == pc[i] = "p1_eval" /\ script[i] = "never_returns"

\* The interrupt check stopped code of invocation i.
Interrupted(i) == heap[SessionOf(i)].ceiling = "time" /\ i \in heap[SessionOf(i)].users

\* C22: code that does not end on its own ends only when the interrupt check
\* stops it, which happens only once the deadline of its session has passed
\* and ends the phase in a script error; a script whose evaluation in phase 1
\* never returns is stopped eventually and never reaches the network step.
C22_EndlessScriptIsInterruptedAtDeadline ==
    /\ [](\A i \in Invocations :
            /\ Interrupted(i) =>
                  /\ pc[i] = "done"
                  /\ result[i] \in ScriptErrors
                  /\ now >= deadline[i]
                  /\ runtimes[i] = 0
            /\ script[i] = "never_returns" =>
                  /\ pc[i] \in Phase1Pcs \cup { "idle", "done" }
                  /\ NoNetworkUse(i)
                  /\ ~Entered(i, "parse")
                  /\ result[i] = "usage_script.config_parse_failed" => Interrupted(i))
    /\ \A i \in Invocations :
          EvaluatingForever(i) ~>
              (pc[i] = "done" /\ result[i] = "usage_script.config_parse_failed")

\* An extractor call was stopped by the interrupt check of phase 2, whose
\* deadline lies after the one of phase 1.
C22_Witness ==
    \E i \in Invocations :
        /\ Interrupted(i)
        /\ result[i] = "usage_script.extractor_exec_failed"
        /\ now = deadline[i]
        /\ deadline[i] > startedAt[i] + MaxMs(timeout_secs[i])

----------------------------------------------------------------------------
(* C23 *)

ClaimedNormal(s) == trim_end_dots(to_ascii_lowercase(s))

\* The entries of the configured list: the items between commas, without the
\* blanks around them, empty items left out.
ClaimedEntries(env) ==
    LET pieces == split_comma(env.val)
    IN  { ClaimedNormal(trim(pieces[k])) : k \in 1..Len(pieces) } \ { <<>> }

AllowlistConfigured == envAllowedHosts.set /\ ClaimedEntries(envAllowedHosts) # {}

\* The URL got as far as the allowlist step.
ReachedAllowlistStep(i) ==
    /\ validations[i] > 0
    /\ request[i].url.parses
    /\ request[i].url.scheme \in { "http", "https" }
    /\ request[i].url.username = <<>> /\ ~request[i].url.password
    /\ request[i].url.host.kind # "none"

ListedHost(i) ==
    ClaimedNormal(request[i].url.host.str) \in ClaimedEntries(envAllowedHosts)

\* C23: with an allowlist configured, a URL passes the allowlist step exactly
\* when its host, lower-cased and without trailing dots, equals an entry
\* normalised the same way; any other host (a subdomain of an entry, a host a
\* wildcard entry would cover) ends the invocation in
\* usage_script.url_host_not_allowed with no DNS lookup and no request, and a
\* listed host is still refused by the egress policy.
C23_AllowlistIsExactMatchBeforeDns ==
    \A i \in Invocations :
        (AllowlistConfigured /\ ReachedAllowlistStep(i)) =>
            /\ ~ListedHost(i) =>
                  /\ pc[i] = "done"
                  /\ result[i] = "usage_script.url_host_not_allowed"
                  /\ dnsLookups[i] = 0
                  /\ contacted[i] = <<>>
            /\ ListedHost(i) =>
                  /\ result[i] # "usage_script.url_host_not_allowed"
                  /\ request[i].url.host.kind = "domain" => dnsLookups[i] = 1
                  /\ (/\ request[i].url.host.kind = "ip"
                      /\ is_disallowed_ip(request[i].url.host.ip,
                                          parse_egress_policy(envPolicy)))
                        => /\ result[i] = "usage_script.url_blocked"
                           /\ contacted[i] = <<>>

\* a.io is listed and x.a.io is asked for: refused before any lookup.
C23_Witness ==
    \E i \in Invocations :
        /\ envAllowedHosts = EnvSet(S_allow)
        /\ request[i].url.host = HostDomain(S_x_a_io)
        /\ result[i] = "usage_script.url_host_not_allowed"
        /\ dnsLookups[i] = 0

\* A listed loopback address is refused by the Strict policy.
C23_WitnessListedButBlocked ==
    \E i \in Invocations :
        /\ envAllowedHosts = EnvSet(S_allow)
        /\ request[i].url.host = HostIp(Loop4, S_loop4)
        /\ result[i] = "usage_script.url_blocked"

----------------------------------------------------------------------------
(* C24 *)

\* The request carries Basic credentials for admin with the configured password.
CarriesCredentials(req) ==
    /\ req.auth.present /\ req.auth.visible
    /\ req.auth.lead \in { S_Basic_sp, S_Basic_sp2 }
    /\ req.auth.decodes /\ req.auth.utf8
    /\ req.auth.decoded = S_admin \o <<":">> \o webPassword

NeedsToken(req) == req.method \notin { "GET", "HEAD" }

CarriesToken(req) == req.csrf.present /\ req.csrf.visible /\ req.csrf.text = S_csrf

PastAuthLayer(r) == webPc[r] \in { "handler", "hsts_out", "responded" }

C24_WitnessHandled ==
    \E r \in WebRequests :
        /\ webHandled[r]
        /\ webReq[r].method = "POST"
        /\ webResp[r].status = 200

----------------------------------------------------------------------------
(* C25 *)

HstsDisabled ==
    envEnableHsts.set /\ envEnableHsts.val \notin { S_1, S_true, S_TRUE, S_yes, S_on }

Carries(resp, name, hv) == <<name, hv>> \in resp.headers

\* C25: every response the router returns, whatever its status, carries
\* x-frame-options: DENY, x-content-type-options: nosniff and
\* referrer-policy: no-referrer, and, unless HSTS is disabled,
\* strict-transport-security: max-age=31536000; includeSubDomains.
C25_EveryResponseCarriesSecurityHeaders ==
    \A r \in WebRequests :
        webPc[r] = "responded" =>
            /\ Carries(webResp[r], "x-frame-options", "DENY")
            /\ Carries(webResp[r], "x-content-type-options", "nosniff")
            /\ Carries(webResp[r], "referrer-policy", "no-referrer")
            /\ ~HstsDisabled =>
                  Carries(webResp[r], "strict-transport-security",
                          "max-age=31536000; includeSubDomains")

\* The same for the responses that came back through add_hsts_header: all
\* but the 429 of the rate limiter.
C25_ResponsesOfInnerLayersCarrySecurityHeaders ==
    \A r \in WebRequests :
        (webPc[r] = "responded" /\ webResp[r].status # 429) =>
            /\ Carries(webResp[r], "x-frame-options", "DENY")
            /\ Carries(webResp[r], "x-content-type-options", "nosniff")
            /\ Carries(webResp[r], "referrer-policy", "no-referrer")
            /\ ~HstsDisabled =>
                  Carries(webResp[r], "strict-transport-security",
                          "max-age=31536000; includeSubDomains")

----------------------------------------------------------------------------
(* C29 *)

Restarted == rlCount' < rlCount
Answered429(r) == webResp[r] # too_many_requests /\ webResp'[r] = too_many_requests

\* C29: with a rate limiter installed, however the requests interleave, no
\* more than max requests are passed on between two window resets; a request
\* that finds the count at max is answered 429 and leaves the count as it is;
\* the count goes back to zero only while a request is being checked, one
\* window or more after the window started.
C29_RateLimitNeverForwardsMoreThanMax ==
    /\ [](RateLimit.installed => rlForwarded <= RateLimit.max /\ rlCount <= RateLimit.max)
    /\ [][/\ \A r \in WebRequests :
               Answered429(r) => rlCount >= RateLimit.max /\ rlCount' = rlCount
          /\ Restarted =>
               /\ rlCount' = 0
               /\ now - rlWindowStart >= RateLimit.window
               /\ rlWindowStart' = now
               /\ \E r \in WebRequests : webPc[r] = "rl_window"
          /\ rlCount' > rlCount =>
               /\ rlCount' = rlCount + 1
               /\ \E r \in WebRequests : webPc[r] = "rl_count" /\ webPc'[r] = "inner"]_vars

\* A request was answered 429, and a later one, arriving after the window
\* had been restarted, filled the new window.
C29_Witness ==
    \E r \in WebRequests :
        /\ webResp[r] = too_many_requests
        /\ rlWindowStart > 0
        /\ rlForwarded = RateLimit.max
        /\ \A q \in WebRequests : webPc[q] = "responded"

\* ---------------------------------------------------------------------------
\* The address the client connects to
\* ---------------------------------------------------------------------------

ConnectedForDomain(i) ==
    /\ connected[i] # {}
    /\ request[i].url.host.kind = "domain"

\* C26: for a request to a domain host, every address the HTTP client connects
\* to for request.url is one of the addresses validate_request_url resolved, and
\* is allowed by the egress policy.
C26_ClientConnectsOnlyToValidatedAddresses ==
    \A i \in Invocations :
        ConnectedForDomain(i) =>
            \A ip \in connected[i] :
                /\ ip \in dnsAnswer[i].ips
                /\ ~is_disallowed_ip(ip, parse_egress_policy(envPolicy))

\* ---------------------------------------------------------------------------
\* IPv4-mapped IPv6 addresses
\* ---------------------------------------------------------------------------

\* ::ffff:a.b.c.d
IsIpv4Mapped(ip) ==
    /\ ip.v = 6
    /\ SubSeq(ip.o, 1, 5) = <<0, 0, 0, 0, 0>>
    /\ ip.o[6] = 65535

EmbeddedIpv4(ip) ==
    V4(ip.o[7] \div 256, ip.o[7] % 256, ip.o[8] \div 256, ip.o[8] % 256)

\* C27: under Strict, an IPv4-mapped IPv6 address is disallowed whenever the
\* IPv4 address it embeds is disallowed.
C27_Ipv4MappedFollowsEmbeddedIpv4 ==
    ( /\ ipVerdict # "unchecked"
      /\ policyArg = "Strict"
      /\ IsIpv4Mapped(ipArg)
      /\ is_disallowed_ip(EmbeddedIpv4(ipArg), "Strict") )
    => ipVerdict = "disallowed"

\* ---------------------------------------------------------------------------
\* Termination
\* ---------------------------------------------------------------------------

Returned(i) == pc[i] = "done"

\* C28: with timers and interrupt checks firing and nothing assumed of the
\* remote parties, every invocation that was started eventually returns.
C28_EveryInvocationEventuallyReturns ==
    \A i \in Invocations : (i \in active) ~> Returned(i)

\* Under the same assumptions an invocation returns or is left waiting for the
\* answer of lookup_host: every other suspension ends by a timer.
C28_ReturnsOrAwaitsLookup ==
    \A i \in Invocations : (i \in active) ~> (Returned(i) \/ pc[i] = "dns_wait")

\* ---------------------------------------------------------------------------
\* The preview of a long body
\* ---------------------------------------------------------------------------

\* The body of a non-2xx response was read to its end.
ErrorBodyRead(i) ==
    /\ ResponseReceived(i)
    /\ ~is_success(response[i])
    /\ pc[i] = "done"
    /\ result[i] \notin { "usage_script.read_response_failed",
                          "usage_script.response_too_large",
                          "usage_script.request_failed" }

\* C30: with the include-error-body flag enabled, a non-2xx response whose
\* body was read ends in usage_script.http_error with a preview of the body,
\* whatever the body is: cutting the preview at byte 200 never aborts the
\* invocation, also when that byte lies inside a multi-byte character.
C30_PreviewNeverAborts ==
    \A i \in Invocations :
        (IncludeBodyEnabled /\ ErrorBodyRead(i)) =>
            /\ result[i] # "panic"
            /\ result[i] = "usage_script.http_error"
            /\ ~message[i].omitted

====
